---- MODULE Spec2Model ----
(***************************************************************************)
(* Token resolution (cmd/auth/token.go) and the profile file it reads and  *)
(* writes.  A Go string is a finite sequence of tokens, so that formatting *)
(* (joining names, building messages) and host canonicalization are       *)
(* computed and can differ from the identity.                              *)
(***************************************************************************)
EXTENDS Integers, Sequences, FiniteSets, TLC

VARIABLES
    file,             \* the profile file: sequence of sections, in stored order
    disk,             \* what is at the file's path: absent, parsed, malformed, restricted
    pc,               \* control point of the running command
    profileName,      \* loadTokenArgs.profileName (args.profileName)
    args,             \* loadTokenArgs.args: positional arguments
    authArguments,    \* *auth.AuthArguments shared with the caller
    flags,            \* the command line as given: flags, which were given, arguments
    env,              \* environment variables of the process
    promptSupported,  \* cmdio.IsPromptSupported(ctx)
    existingProfile,  \* *profile.Profile: <<>> is nil, <<p>> is &p
    matchingProfiles, \* result of the host scan in loadToken
    selection,        \* result of the profile picker (resolveNoArgsToken)
    loginName,        \* runInlineLogin: profileName
    loginArgs,        \* runInlineLogin: loginArgs
    loginProfile,     \* runInlineLogin: existingProfile
    err,              \* error returned by loadToken, <<>> when none
    token,            \* token returned by loadToken, <<>> when none
    fetchErr,         \* error returned by persistentAuth.Token(), <<>> when none
    trace,            \* observable effects, in order
    saves,            \* number of SaveToProfile calls made on the file
    lastSave,         \* arguments and outcome of the last SaveToProfile call
    written,          \* per section and key: last non-empty value written
    chainCfg,         \* the config the credential chain is asked to configure
    chainEnv,         \* what the environment lets each strategy's Configure do
    chainPos,         \* 0 before Configure, else the next strategy to try
    chainTried,       \* names of the strategies whose Configure was called
    chainResult,      \* <<>> while undecided, else <<[name, err]>>
    cliCfg,           \* the config given to CLICredentials.Configure
    cliAuthFn,        \* what persistentAuth answers: an error or a token source
    cliCalls,         \* number of times the persistent token cache was contacted
    cliResult,        \* <<>> before Configure, else <<[provider, err]>>
    cliGeneration,    \* how many times the token source has renewed its token
    cliCached,        \* the cached token source: <<>> or <<token>> while valid
    cliHeader,        \* Authorization header of the last request, <<>> when unset
    matchCall,        \* the matcher last called and its arguments
    matchResult,      \* what the match function answered for the profile
    matchCanon,       \* what canonicalizeHost returned
    enrichCall,       \* <<>> or <<[cfg, err, argErr]>>: the EnrichAuthError call made
    enrichOut,        \* <<>> or <<error>>: what EnrichAuthError returned
    compShell,        \* the shell completion is installed for, "" before one is chosen
    compHomebrew,     \* Homebrew's zsh completion file exists
    compWritable,     \* the target file and its directory can be written
    compFile,         \* the target file: <<>> when absent, else <<content>>
    compTrace,        \* the Install and Uninstall calls made, with their results
    cmdRun,           \* the last run of "completion install" or "completion uninstall"
    appName,          \* config.Name of the app being deployed, Empty before DoCreate
    appPc,            \* where the deployment of the app is
    appTries,         \* the attempts the retrier of DoCreate made, in order
    appResult,        \* what DoCreate returned: << >> or <<[id, err]>>
    appState,         \* the compute state the service holds for the app
    appPolls,         \* what the polls of waitForApp saw, the last two at most
    appWait,          \* what waitForApp returned: << >> or <<[app, err]>>
    whSession,        \* the session's entries for the three warehouse keys
    whWgDone,         \* the WaitGroup stored under warehouse_loading has reached zero
    whBg,             \* where the goroutine of loadWarehouseInBackground is
    whBgGot,          \* what its getDefaultWarehouse answered: << >> or <<[wh, err]>>
    whLoads,          \* who has called getDefaultWarehouse: 0 is the background goroutine
    whCall,           \* per caller: the running call of GetWarehouseEndpoint
    whReturns         \* the calls of GetWarehouseEndpoint that returned, in order

vars == << file, disk, pc, profileName, args, authArguments, flags, env,
           promptSupported, existingProfile, matchingProfiles, selection,
           loginName, loginArgs, loginProfile, err, token, fetchErr, trace,
           saves, lastSave, written,
           chainCfg, chainEnv, chainPos, chainTried, chainResult,
           cliCfg, cliAuthFn, cliCalls, cliResult, cliGeneration, cliCached,
           cliHeader, matchCall, matchResult, matchCanon, enrichCall, enrichOut,
           compShell, compHomebrew, compWritable, compFile, compTrace,
           cmdRun, appName, appPc, appTries, appResult, appState, appPolls,
           appWait, whSession, whWgDone, whBg, whBgGot, whLoads, whCall,
           whReturns >>

tokenVars == << pc, profileName, args, authArguments, flags, env,
                promptSupported, existingProfile, matchingProfiles, selection,
                loginName, loginArgs, loginProfile, err, token, fetchErr, trace >>

saveVars == << saves, lastSave, written >>

chainVars == << chainCfg, chainEnv, chainPos, chainTried, chainResult >>

cliVars == << cliCfg, cliAuthFn, cliCalls, cliResult, cliGeneration, cliCached,
              cliHeader >>

matchVars == << matchCall, matchResult, matchCanon >>

enrichVars == << enrichCall, enrichOut >>

compVars == << compShell, compHomebrew, compWritable, compFile, compTrace >>

cmdVars == << cmdRun >>

appVars == << appName, appPc, appTries, appResult, appState, appPolls, appWait >>

whVars == << whSession, whWgDone, whBg, whBgGot, whLoads, whCall, whReturns >>

\* the state of the commands and calls that are not part of the other groups
moreVars == << cmdVars, appVars, whVars >>

\* everything but the warehouse of the session
notWh == << file, disk, tokenVars, saveVars, chainVars, cliVars, matchVars,
            enrichVars, compVars, cmdVars, appVars >>

\* everything but the deployment of the app
notApp == << file, disk, tokenVars, saveVars, chainVars, cliVars, matchVars,
             enrichVars, compVars, cmdVars, whVars >>

\* the state of the library calls made outside loadToken and the chain
libVars == << cliVars, matchVars, enrichVars, compVars, moreVars >>

----------------------------------------------------------------------------
(* Bounds *)

MaxArgs == 2
MaxSaves == 2
MaxRenewals == 2
MaxNames == 2
MaxCalls == 3

----------------------------------------------------------------------------
(* Strings *)

Empty == << >>

RECURSIVE Join(_, _)
\* strings.Join(elems, sep)
Join(elems, sep) ==
    IF elems = << >> THEN Empty
    ELSE IF Len(elems) = 1 THEN elems[1]
    ELSE elems[1] \o sep \o Join(Tail(elems), sep)

Schemes == { "https://", "http://" }
PathStart == { "/", "?" }

RECURSIVE HostPart(_)
\* the authority of a URL without scheme: everything before the path or query
HostPart(s) ==
    IF s = << >> \/ Head(s) \in PathStart THEN << >>
    ELSE << Head(s) >> \o HostPart(Tail(s))

\* config.Config.CanonicalHostName: scheme (https when none), authority,
\* nothing else; the empty host stays empty
CanonicalHostName(h) ==
    IF h = Empty THEN Empty
    ELSE IF Head(h) \in Schemes THEN << Head(h) >> \o HostPart(Tail(h))
    ELSE << "https://" >> \o HostPart(h)

canonicalizeHostRaw(host) == host

\* profile.canonicalizeHost
canonicalizeHost(host) == CanonicalHostName(host)

AccountPrefixes == { "accounts.", "accounts-dod." }

\* config.Config.HostType, on the host the config currently holds
HostType(host, isUnifiedHost) ==
    IF isUnifiedHost THEN "UnifiedHost"
    ELSE IF Len(host) >= 2 /\ host[1] = "https://" /\ host[2] \in AccountPrefixes
         THEN "AccountHost"
    ELSE "WorkspaceHost"

----------------------------------------------------------------------------
(* Profile matchers (libs/databrickscfg/profile/profiler.go) *)

MatchWorkspaceProfiles(p) ==
    \/ (p.AccountID = Empty /\ ~p.IsUnifiedHost)
    \/ (p.IsUnifiedHost /\ p.WorkspaceID # Empty)

MatchAccountProfilesNoHost(p) ==
    \/ (p.AccountID # Empty /\ ~p.IsUnifiedHost)
    \/ (p.IsUnifiedHost /\ p.AccountID # Empty /\ p.WorkspaceID = Empty)

MatchAccountProfiles(p) ==
    \/ (p.Host # Empty /\ p.AccountID # Empty /\ ~p.IsUnifiedHost)
    \/ (p.IsUnifiedHost /\ p.AccountID # Empty /\ p.WorkspaceID = Empty)

MatchAllProfiles(p) == TRUE

\* MatchProfileNames(names...): the names become the keys of nameSet, the
\* profile matches when its name is a key
MatchProfileNames(names, p) ==
    LET nameSet == { names[i] : i \in 1..Len(names) }
    IN p.Name \in nameSet

WithName(name, p) == p.Name = name

WithHostAnyEmpty(host, p) ==
    canonicalizeHost(p.Host) = canonicalizeHost(host)

WithHost(host, p) ==
    p.Host # Empty /\ canonicalizeHost(p.Host) = canonicalizeHost(host)

WithHostAndAccountID(host, accountID, p) ==
    /\ p.Host # Empty
    /\ canonicalizeHost(p.Host) = canonicalizeHost(host)
    /\ p.AccountID = accountID

----------------------------------------------------------------------------
(* The profile file *)

DEFAULT == << "DEFAULT" >>

\* a file that did not exist: loadOrCreateConfigFile leaves only DEFAULT
FreshFile == << [name |-> DEFAULT, keys |-> << >>] >>

\* no file at the path
NoFile == << >>

\* what can be at the path: no file, a file that parses, a file that does
\* not parse (an unclosed section), no file and a path nothing can be created at
DiskStates == { "absent", "parsed", "malformed", "restricted" }

ErrCreate == << "create ", "~/.databrickscfg", ": ", "permission denied" >>

ErrParse == << "parse ", "~/.databrickscfg", ": ", "unclosed section: [abc" >>

\* loadOrCreateConfigFile(path)
loadOrCreateConfigFile(d, f) ==
    CASE d = "parsed" -> [err |-> Empty, disk |-> d, file |-> f]
      [] d = "absent" -> [err |-> Empty, disk |-> "parsed", file |-> FreshFile]
      [] d = "restricted" -> [err |-> ErrCreate, disk |-> d, file |-> f]
      [] d = "malformed" -> [err |-> ErrParse, disk |-> d, file |-> f]

Present(section, k) == k \in DOMAIN section.keys

Value(section, k) == IF Present(section, k) THEN section.keys[k] ELSE Empty

SectionNames(f) == [i \in 1..Len(f) |-> f[i].name]

SectionIndex(f, name) == CHOOSE i \in 1..Len(f) : f[i].name = name

HasSectionNever(f, name) == FALSE

HasSection(f, name) == \E i \in 1..Len(f) : f[i].name = name

\* The keys of config.ConfigAttributes that the file stores
ConfigKeys == { "host", "token", "auth_type", "account_id", "cluster_id",
                "serverless_compute_id", "scopes", "client_id", "client_secret",
                "experimental_is_unified_host", "workspace_id" }

NoConfig == [ Profile |-> Empty, Host |-> Empty, Token |-> Empty,
              AuthType |-> Empty, AccountID |-> Empty, ClusterID |-> Empty,
              ServerlessComputeID |-> Empty, Scopes |-> << >>,
              ClientID |-> Empty, ClientSecret |-> Empty,
              Experimental_IsUnifiedHost |-> FALSE, WorkspaceID |-> Empty ]

\* The string a config field is stored as; Empty when the field is not populated
AttrString(cfg, k) ==
    CASE k = "host" -> cfg.Host
      [] k = "token" -> cfg.Token
      [] k = "auth_type" -> cfg.AuthType
      [] k = "account_id" -> cfg.AccountID
      [] k = "cluster_id" -> cfg.ClusterID
      [] k = "serverless_compute_id" -> cfg.ServerlessComputeID
      [] k = "scopes" -> Join(cfg.Scopes, << "," >>)
      [] k = "client_id" -> cfg.ClientID
      [] k = "client_secret" -> cfg.ClientSecret
      [] k = "experimental_is_unified_host" ->
            IF cfg.Experimental_IsUnifiedHost THEN << "true" >> ELSE Empty
      [] k = "workspace_id" -> cfg.WorkspaceID

Populated(cfg) == { k \in ConfigKeys : AttrString(cfg, k) # Empty }

\* matchOrCreateSection: the section a save goes to, created when cfg.Profile
\* names a section that does not exist yet
AccountMatchesNone(f, cfg) == {}

\* the sections whose account_id is cfg.AccountID
AccountMatches(f, cfg) ==
    { i \in 1..Len(f) : cfg.AccountID # Empty /\ Value(f[i], "account_id") = cfg.AccountID }

HostMatches(f, cfg) ==
    { i \in 1..Len(f) : /\ cfg.Host # Empty
                        /\ Present(f[i], "host")
                        /\ canonicalizeHost(Value(f[i], "host")) = canonicalizeHost(cfg.Host) }

RECURSIVE NamesAt(_, _, _)
NamesAt(f, idxs, i) ==
    IF i > Len(f) THEN << >>
    ELSE (IF i \in idxs THEN << f[i].name >> ELSE << >>) \o NamesAt(f, idxs, i + 1)

ErrEmptySectionName == << "cannot create new profile: ", "empty section name" >>

ErrMultipleProfiles(names) == << "multiple profiles matched: " >> \o Join(names, << ", " >>)

SingleMatchAny(idxs) == idxs # {}

\* a single profile matches
SingleMatch(idxs) == Cardinality(idxs) = 1

matchOrCreateSection(f, cfg) ==
    IF cfg.Profile # Empty
    THEN IF HasSection(f, cfg.Profile)
         THEN [err |-> Empty, file |-> f, idx |-> SectionIndex(f, cfg.Profile)]
         ELSE [err |-> Empty,
               file |-> Append(f, [name |-> cfg.Profile, keys |-> << >>]),
               idx |-> Len(f) + 1]
    ELSE IF SingleMatch(AccountMatches(f, cfg))
    THEN [err |-> Empty, file |-> f, idx |-> CHOOSE i \in AccountMatches(f, cfg) : TRUE]
    ELSE IF SingleMatch(HostMatches(f, cfg))
    THEN [err |-> Empty, file |-> f, idx |-> CHOOSE i \in HostMatches(f, cfg) : TRUE]
    ELSE IF Cardinality(HostMatches(f, cfg)) > 1
    THEN [err |-> ErrMultipleProfiles(NamesAt(f, HostMatches(f, cfg), 1)), file |-> f, idx |-> 0]
    ELSE [err |-> ErrEmptySectionName, file |-> f, idx |-> 0]

RemainingAll(ks, clearKeys) == ks

\* the keys left once each key named in clearKeys is removed
Remaining(ks, clearKeys) == ks \ clearKeys

\* the section replaced by the populated fields
MergeKeysReplacing(old, cfg, clearKeys) ==
    [ k \in (Populated(cfg) \ clearKeys) |-> AttrString(cfg, k) ]

\* The keys of a section after a save: populated fields written, the other
\* keys kept, the keys named in clearKeys removed
MergeKeys(old, cfg, clearKeys) ==
    [ k \in Remaining(DOMAIN old \cup Populated(cfg), clearKeys) |->
        IF k \in Populated(cfg) THEN AttrString(cfg, k) ELSE old[k] ]

\* the section resolved and written in a file that is loaded
SaveToSection(f, cfg, clearKeys) ==
    LET m == matchOrCreateSection(f, cfg) IN
    IF m.err # Empty THEN [err |-> m.err, file |-> f, idx |-> 0]
    ELSE [err |-> Empty,
          file |-> [m.file EXCEPT ![m.idx].keys = MergeKeys(@, cfg, clearKeys)],
          idx |-> m.idx]

\* databrickscfg.SaveToProfile(ctx, cfg, clearKeys...): the file is loaded or
\* created, the section resolved and written, and the file persisted
SaveToProfile(d, f, cfg, clearKeys) ==
    LET l == loadOrCreateConfigFile(d, f) IN
    IF l.err # Empty THEN [err |-> l.err, disk |-> l.disk, file |-> l.file, idx |-> 0]
    ELSE LET r == SaveToSection(l.file, cfg, clearKeys)
         IN [err |-> r.err, disk |-> l.disk, file |-> r.file, idx |-> r.idx]

----------------------------------------------------------------------------
(* Profiles as the profiler reads them from the file *)

ProfileOf(section) ==
    [ Name |-> section.name,
      Host |-> Value(section, "host"),
      AccountID |-> Value(section, "account_id"),
      WorkspaceID |-> Value(section, "workspace_id"),
      IsUnifiedHost |-> Value(section, "experimental_is_unified_host") = << "true" >>,
      HasClientCredentials |-> Value(section, "client_id") # Empty
                               /\ Value(section, "client_secret") # Empty ]

Profiles(f) ==
    LET withHost == SelectSeq(f, LAMBDA s : Present(s, "host"))
    IN [i \in 1..Len(withHost) |-> ProfileOf(withHost[i])]

\* Profiler.LoadProfiles(ctx, fn)
LoadProfiles(f, fn(_)) == SelectSeq(Profiles(f), fn)

\* Profiles.Names()
Names(profiles) == [i \in 1..Len(profiles) |-> profiles[i].Name]

\* Profiler.GetPath(ctx)
ConfigPath == << "~/.databrickscfg" >>

----------------------------------------------------------------------------
(* Hosts, names and the stored profiles token resolution runs against *)

HAccounts == << "https://", "accounts.", "cloud.databricks.com" >>
HShared == << "https://", "shared.", "cloud.databricks.com" >>
HUnique == << "https://", "unique-ws.", "cloud.databricks.com" >>
HNoProfile == << "https://", "no-profile.", "cloud.databricks.com" >>
HDev == << "https://", "dev.", "cloud.databricks.com" >>
HM2M == << "https://", "m2m.", "cloud.databricks.com" >>
HUnified == << "https://", "unified.", "cloud.databricks.com" >>

\* the same host written without scheme
NoScheme(h) == Tail(h)

\* the same host followed by a path and a query
WithPath(h) == h \o << "/", "p", "?", "q=1" >>

Section(name, keys) == [name |-> name, keys |-> keys]

Kv(k, v) == [x \in {k} |-> v]

\* The profiles of TestToken_loadToken, with a client-credentials profile and
\* a unified-host profile added
TestFile ==
    << Section(DEFAULT, << >>),
       Section(<< "active" >>, Kv("host", HAccounts) @@ Kv("account_id", << "active" >>)),
       Section(<< "dup1" >>, Kv("host", HShared)),
       Section(<< "dup2" >>, Kv("host", HShared) @@ Kv("client_id", << "id" >>)
                                 @@ Kv("client_secret", << "secret" >>)),
       Section(<< "acct-dup1" >>, Kv("host", HAccounts) @@ Kv("account_id", << "same-account" >>)),
       Section(<< "acct-dup2" >>, Kv("host", HAccounts) @@ Kv("account_id", << "same-account" >>)),
       Section(<< "default.", "dev" >>, Kv("host", HDev)),
       Section(<< "unique-ws" >>, Kv("host", HUnique)),
       Section(<< "m2m" >>, Kv("host", HM2M) @@ Kv("client_id", << "id" >>)
                                @@ Kv("client_secret", << "secret" >>)),
       Section(<< "unified" >>, Kv("host", HUnified) @@ Kv("account_id", << "active" >>)
                                    @@ Kv("experimental_is_unified_host", << "true" >>)
                                    @@ Kv("workspace_id", << "ws-profile" >>)) >>

Files == { FreshFile, TestFile }

----------------------------------------------------------------------------
(* Helpers of loadToken *)

Nil == << >>

Event(ev, arg) == [ev |-> ev, arg |-> arg]

\* loadProfileByName: nil for the empty name, without reading the store;
\* else the first stored profile of that name, nil when there is none
loadProfileByName(name, f) ==
    IF name = Empty THEN Nil
    ELSE LET found == LoadProfiles(f, LAMBDA p : WithName(name, p))
         IN IF Len(found) > 0 THEN << found[1] >> ELSE Nil

\* the store reads loadProfileByName makes
loadProfileByNameTrace(name) ==
    IF name = Empty THEN << >> ELSE << Event("LoadProfiles", << "WithName" >> \o name) >>

applyUnifiedHostFlags(p, a) ==
    IF p = Nil THEN a
    ELSE LET a1 == IF ~a.IsUnifiedHost /\ p[1].IsUnifiedHost
                   THEN [a EXCEPT !.IsUnifiedHost = p[1].IsUnifiedHost]
                   ELSE a
         IN IF a1.WorkspaceID = Empty /\ p[1].WorkspaceID # Empty
            THEN [a1 EXCEPT !.WorkspaceID = p[1].WorkspaceID]
            ELSE a1

NoAuthArguments ==
    [Host |-> Empty, AccountID |-> Empty, WorkspaceID |-> Empty,
     IsUnifiedHost |-> FALSE, Profile |-> Empty]

NoEnv ==
    [DATABRICKS_HOST |-> Empty, DATABRICKS_ACCOUNT_ID |-> Empty,
     DATABRICKS_WORKSPACE_ID |-> Empty,
     DATABRICKS_EXPERIMENTAL_IS_UNIFIED_HOST |-> FALSE,
     DATABRICKS_CONFIG_PROFILE |-> Empty]

NoFlags ==
    [Profile |-> Empty, Args |-> << >>, Host |-> Empty, AccountID |-> Empty,
     WorkspaceID |-> Empty, IsUnifiedHost |-> FALSE, explicit |-> {}]

ErrBoth == << "providing both a profile and host is not supported" >>

\* the names joined as a list, as matchOrCreateSection joins them
ErrAmbiguousCommas(names, host, configPath) ==
    Join(names, << ", " >>) \o << " match " >> \o host \o << " in " >> \o configPath
        \o << ". Use --profile to specify which profile to use" >>

ErrAmbiguous(names, host, configPath) ==
    Join(names, << " and " >>) \o << " match " >> \o host \o << " in " >> \o configPath
        \o << ". Use --profile to specify which profile to use" >>

\* the grave accent character, which a string constant here cannot contain
Backtick == "<grave-accent>"

Quote(s) == << "\"" >> \o s \o << "\"" >>

ErrM2M(name) ==
    << "profile " >> \o Quote(name)
        \o << " uses M2M authentication (client_id/client_secret). ",
              Backtick, "databricks auth token", Backtick, " only supports U2M (user-to-machine) authentication tokens. ",
              "To authenticate as a service principal, use the Databricks SDK directly" >>

ErrNoProfileSpecified ==
    << "no profile specified. Use --profile <name> to specify which profile to use" >>

ErrNoProfilesConfigured ==
    << "no profiles configured. Run 'databricks auth login' to create a profile" >>

\* promptui.ErrInterrupt, returned by a prompt the user aborts
ErrInterrupt == << "^C" >>

\* what a prompt for a host or an account ID answers when prompting is not supported
ErrNeedHost ==
    << "the command is being run in a non-interactive environment, please specify a host using --host" >>

ErrNeedAccountID ==
    << "the command is being run in a non-interactive environment, please specify an account ID using --account-id" >>

PromptHosts == { HNoProfile, NoScheme(HShared) }
PromptAccountIDs == { << "active" >> }
PromptProfileNames == { DEFAULT, << "new" >>, << "m2m" >> }

\* setHostAndAccountId, first half: the host comes from the flag, else the
\* positional argument, else the profile, else a prompt
HostOutcomes(p, a, positional, canPrompt) ==
    IF a.Host # Empty THEN { [err |-> Empty, a |-> a, trace |-> << >>] }
    ELSE IF Len(positional) > 0
    THEN { [err |-> Empty, a |-> [a EXCEPT !.Host = positional[1]], trace |-> << >>] }
    ELSE IF p # Nil /\ p[1].Host # Empty
    THEN { [err |-> Empty, a |-> [a EXCEPT !.Host = p[1].Host], trace |-> << >>] }
    ELSE IF ~canPrompt
    THEN { [err |-> ErrNeedHost, a |-> a, trace |-> << >>] }
    ELSE { [err |-> Empty, a |-> [a EXCEPT !.Host = h],
            trace |-> << Event("Prompt", << "host" >>) >>] : h \in PromptHosts }
         \cup { [err |-> ErrInterrupt, a |-> a, trace |-> << Event("Prompt", << "host" >>) >>] }

\* setHostAndAccountId, second half: account and unified hosts need an
\* account ID, from the flag, else the profile, else a prompt
AccountOutcomes(p, o, canPrompt) ==
    IF o.err # Empty THEN { o }
    ELSE IF HostType(CanonicalHostName(o.a.Host), o.a.IsUnifiedHost) = "WorkspaceHost"
            \/ o.a.AccountID # Empty
    THEN { o }
    ELSE IF p # Nil /\ p[1].AccountID # Empty
    THEN { [o EXCEPT !.a.AccountID = p[1].AccountID] }
    ELSE IF ~canPrompt
    THEN { [o EXCEPT !.err = ErrNeedAccountID] }
    ELSE { [o EXCEPT !.a.AccountID = id,
                     !.trace = @ \o << Event("Prompt", << "account-id" >>) >>]
             : id \in PromptAccountIDs }
         \cup { [o EXCEPT !.err = ErrInterrupt,
                          !.trace = @ \o << Event("Prompt", << "account-id" >>) >>] }

setHostAndAccountId(p, a, positional, canPrompt) ==
    UNION { AccountOutcomes(p, o, canPrompt) : o \in HostOutcomes(p, a, positional, canPrompt) }

\* AuthArguments.ToOAuthArgument: one of the three variants
ToOAuthArgument(a) ==
    LET host == CanonicalHostName(a.Host)
        kind == HostType(host, a.IsUnifiedHost)
    IN [ kind |-> kind, host |-> host,
         accountID |-> IF kind = "WorkspaceHost" THEN Empty ELSE a.AccountID,
         profile |-> a.Profile ]

\* the key the token cache is asked for: the profile when there is one, else the host
CacheKey(arg) ==
    IF arg.profile # Empty THEN arg.profile
    ELSE IF arg.kind = "WorkspaceHost" THEN arg.host
    ELSE arg.host \o << "/oidc/accounts/" >> \o arg.accountID

\* auth.BuildLoginCommand
BuildLoginCommand(profile, arg) ==
    Join( << << "databricks" >>, << "auth" >>, << "login" >> >> \o
          ( IF profile # Empty THEN << << "--profile" >>, profile >>
            ELSE IF arg.kind = "UnifiedHost"
            THEN << << "--host" >>, arg.host, << "--account-id" >>, arg.accountID,
                    << "--experimental-is-unified-host" >> >>
            ELSE IF arg.kind = "AccountHost"
            THEN << << "--host" >>, arg.host, << "--account-id" >>, arg.accountID >>
            ELSE << << "--host" >>, arg.host >> ),
          << " " >> )

helpfulError(profile, arg) ==
    << "Try logging in again with ", Backtick >> \o BuildLoginCommand(profile, arg) \o << Backtick >>
        \o << " before retrying. If this fails, please report this issue to the Databricks CLI maintainers at https://github.com/databricks/cli/issues/new" >>

ErrNotConfigured == << "cache: databricks OAuth is not configured for this host" >>

\* auth.RewriteAuthError, for an invalid refresh token
RewriteAuthError(host, accountId, profile) ==
    << "A new access token could not be retrieved because the refresh token is invalid. To reauthenticate, run the following command:\n  $ " >>
        \o BuildLoginCommand(profile,
               ToOAuthArgument([NoAuthArguments EXCEPT !.Host = host, !.AccountID = accountId]))

TokenOutcomes == { "ok", "not-found", "invalid-refresh-token", "other" }

----------------------------------------------------------------------------
(* Inputs of a token command *)

ProfileFlagValues == { Empty, << "active" >>, << "m2m" >>, << "unified" >>, << "missing" >> }

ArgValues == { << "unique-ws" >>, << "default.", "dev" >>, << "m2m" >>,
               NoScheme(HShared), << "nonexistent" >> }

\* no argument, one argument, or one argument followed by further ones
ArgLists ==
    { << >> } \cup { << a >> : a \in ArgValues }
    \cup { << a >> \o [i \in 1..n |-> << "extra" >>] :
             a \in { << "unique-ws" >>, NoScheme(HShared) }, n \in 1..(MaxArgs - 1) }

\* --host and --account-id
FlagTargets ==
    { << Empty, Empty >>, << Empty, << "active" >> >>, << HShared, Empty >>, << HShared, << "active" >> >>,
      << NoScheme(HAccounts), << "same-account" >> >>, << HAccounts, << "active" >> >>,
      << HAccounts, << "other-account" >> >>,
      << NoScheme(HAccounts), Empty >>, << WithPath(HUnique), Empty >>,
      << HNoProfile, Empty >>, << HM2M, Empty >> }

\* --experimental-is-unified-host and --workspace-id: value and whether given
FlagUnified ==
    { [IsUnifiedHost |-> u, WorkspaceID |-> w, explicit |-> e] :
        u \in BOOLEAN, w \in { Empty, << "ws-flag" >> },
        e \in SUBSET { "IsUnifiedHost", "WorkspaceID" } }

FlagUnifiedCases ==
    { f \in FlagUnified : /\ f.IsUnifiedHost => "IsUnifiedHost" \in f.explicit
                          /\ f.WorkspaceID # Empty => "WorkspaceID" \in f.explicit
                          /\ (~f.IsUnifiedHost /\ f.WorkspaceID = Empty)
                                => Cardinality(f.explicit) # 1 }

Envs ==
    { NoEnv,
      [NoEnv EXCEPT !.DATABRICKS_HOST = HShared],
      [NoEnv EXCEPT !.DATABRICKS_HOST = HM2M],
      [NoEnv EXCEPT !.DATABRICKS_HOST = NoScheme(HAccounts),
                    !.DATABRICKS_ACCOUNT_ID = << "same-account" >>],
      [NoEnv EXCEPT !.DATABRICKS_HOST = HUnified,
                    !.DATABRICKS_ACCOUNT_ID = << "active" >>,
                    !.DATABRICKS_WORKSPACE_ID = << "ws-env" >>,
                    !.DATABRICKS_EXPERIMENTAL_IS_UNIFIED_HOST = TRUE],
      [NoEnv EXCEPT !.DATABRICKS_HOST = HUnique,
                    !.DATABRICKS_CONFIG_PROFILE = << "m2m" >>],
      [NoEnv EXCEPT !.DATABRICKS_CONFIG_PROFILE = << "unified" >>,
                    !.DATABRICKS_ACCOUNT_ID = << "same-account" >>,
                    !.DATABRICKS_WORKSPACE_ID = << "ws-env" >>],
      [NoEnv EXCEPT !.DATABRICKS_CONFIG_PROFILE = << "m2m" >>] }

----------------------------------------------------------------------------
(* loadToken, one action per step *)

NoSave == [cfg |-> NoConfig, clearKeys |-> {}, err |-> Empty, idx |-> 0]

\* what the environment answers: "provider" or "error" for the strategies that
\* reach outside the config, "none" where the strategy finds nothing to use
EnvStrategies == { "oauth-m2m", "databricks-cli", "metadata-service", "azure-cli" }

NoChainEnv == [n \in EnvStrategies |-> "none"]

\* persistentAuthFn answers: an error, or a token source whose Token() fails
\* once it has renewed its token failsAt times
NoAuthFn == [err |-> Empty, failsAt |-> 0]

\* a profile with nothing set
NoProfile ==
    [ Name |-> Empty, Host |-> Empty, AccountID |-> Empty, WorkspaceID |-> Empty,
      IsUnifiedHost |-> FALSE, HasClientCredentials |-> FALSE ]

NoMatchCall ==
    [fn |-> "", host |-> Empty, accountID |-> Empty, names |-> << >>,
     profile |-> NoProfile]

\* no library call has been made
InitLib ==
    /\ cliCfg = NoConfig
    /\ cliAuthFn = NoAuthFn
    /\ cliCalls = 0
    /\ cliResult = << >>
    /\ cliGeneration = 0
    /\ cliCached = << >>
    /\ cliHeader = << >>
    /\ matchCall = NoMatchCall
    /\ matchResult = FALSE
    /\ matchCanon = Empty
    /\ enrichCall = << >>
    /\ enrichOut = << >>
    /\ compShell = ""
    /\ compHomebrew = FALSE
    /\ compWritable = TRUE
    /\ compFile = << >>
    /\ compTrace = << >>
    /\ cmdRun = << >>
    /\ appName = << >>
    /\ appPc = "idle"
    /\ appTries = << >>
    /\ appResult = << >>
    /\ appState = "none"
    /\ appPolls = << >>
    /\ appWait = << >>
    /\ whSession = [loading |-> FALSE, error |-> << >>, endpoint |-> << >>]
    /\ whWgDone = FALSE
    /\ whBg = "none"
    /\ whBgGot = << >>
    /\ whLoads = {}
    /\ whCall = [c \in {1, 2} |-> [pc |-> "idle"]]
    /\ whReturns = << >>

\* the command before it is run
InitCommand ==
    /\ pc = "idle"
    /\ profileName = Empty
    /\ args = << >>
    /\ authArguments = NoAuthArguments
    /\ flags = NoFlags
    /\ env = NoEnv
    /\ promptSupported = FALSE
    /\ existingProfile = Nil
    /\ matchingProfiles = << >>
    /\ selection = "none"
    /\ loginName = Empty
    /\ loginArgs = NoAuthArguments
    /\ loginProfile = Nil
    /\ err = Empty
    /\ token = Empty
    /\ fetchErr = Empty
    /\ trace = << >>
    /\ saves = 0
    /\ lastSave = NoSave
    /\ written = << >>
    /\ chainCfg = NoConfig
    /\ chainEnv = NoChainEnv
    /\ chainPos = 0
    /\ chainTried = << >>
    /\ chainResult = << >>
    /\ InitLib

\* the profile file is absent, or it is one of the stored files
Init ==
    /\ disk \in { "absent", "parsed" }
    /\ file \in (IF disk = "parsed" THEN Files ELSE { NoFile })
    /\ InitCommand

\* the command is run: newTokenCommand's RunE calls loadToken
Call ==
    /\ pc = "idle"
    /\ \E pn \in ProfileFlagValues, al \in ArgLists, t \in FlagTargets,
          u \in FlagUnifiedCases, e \in Envs, ps \in BOOLEAN :
         /\ profileName' = pn
         /\ args' = al
         /\ flags' = [Profile |-> pn, Args |-> al, Host |-> t[1], AccountID |-> t[2],
                      WorkspaceID |-> u.WorkspaceID, IsUnifiedHost |-> u.IsUnifiedHost,
                      explicit |-> u.explicit]
         /\ authArguments' = [Host |-> t[1], AccountID |-> t[2],
                              WorkspaceID |-> u.WorkspaceID,
                              IsUnifiedHost |-> u.IsUnifiedHost, Profile |-> Empty]
         /\ env' = e
         /\ promptSupported' = ps
    /\ pc' = "loadToken"
    /\ UNCHANGED << file, disk, existingProfile, matchingProfiles, selection, loginName,
                    loginArgs, loginProfile, err, token, fetchErr, trace, saveVars, chainVars, libVars >>

\* a return with an error
Fail(e) == pc' = "done" /\ err' = e

\* only a single positional argument counted as a host
BothGivenOneArg(pn, positional) == pn # Empty /\ Len(positional) = 1

\* token.go 123: a profile and a positional argument are both given
BothGiven(pn, positional) == pn # Empty /\ Len(positional) > 0

\* token.go 123-125
CheckProfileAndArgs ==
    /\ pc = "loadToken"
    /\ IF BothGiven(profileName, args)
       THEN Fail(ErrBoth)
       ELSE pc' = "positional" /\ err' = err
    /\ UNCHANGED << file, disk, profileName, args, authArguments, flags, env, promptSupported,
                    existingProfile, matchingProfiles, selection, loginName, loginArgs,
                    loginProfile, token, fetchErr, trace, saveVars, chainVars, libVars >>

\* the argument kept after it was taken as the profile
PositionalProfileKeepsArg(candidateProfile, pn, positional) ==
    IF candidateProfile # Nil
    THEN [profileName |-> positional[1], args |-> positional]
    ELSE [profileName |-> pn, args |-> positional]

\* token.go 134-137: a positional argument that names a profile is consumed
PositionalProfile(candidateProfile, pn, positional) ==
    IF candidateProfile # Nil
    THEN [profileName |-> positional[1], args |-> << >>]
    ELSE [profileName |-> pn, args |-> positional]

\* token.go 129-138
ResolvePositional ==
    /\ pc = "positional"
    /\ IF profileName = Empty /\ Len(args) = 1
       THEN LET r == PositionalProfile(loadProfileByName(args[1], file), profileName, args) IN
            /\ trace' = trace \o loadProfileByNameTrace(args[1])
            /\ profileName' = r.profileName
            /\ args' = r.args
       ELSE UNCHANGED << profileName, args, trace >>
    /\ pc' = "existing"
    /\ UNCHANGED << file, disk, authArguments, flags, env, promptSupported, existingProfile,
                    matchingProfiles, selection, loginName, loginArgs, loginProfile,
                    err, token, fetchErr, saveVars, chainVars, libVars >>

\* token.go 140-149
LoadExisting ==
    /\ pc = "existing"
    /\ existingProfile' = loadProfileByName(profileName, file)
    /\ trace' = trace \o loadProfileByNameTrace(profileName)
    /\ authArguments' = applyUnifiedHostFlags(existingProfile', authArguments)
    /\ pc' = IF profileName = Empty /\ authArguments'.Host = Empty /\ Len(args) = 0
             THEN "resolveNoArgsToken"
             ELSE "setHostAndAccountId"
    /\ UNCHANGED << file, disk, profileName, args, flags, env, promptSupported, matchingProfiles,
                    selection, loginName, loginArgs, loginProfile, err, token, fetchErr, saveVars, chainVars, libVars >>

\* token.go 151-156: resolveNoArgsToken has returned (name, p) to loadToken
ReturnResolved(name, p, a) ==
    /\ profileName' = name
    /\ existingProfile' = p
    /\ authArguments' = applyUnifiedHostFlags(p, a)
    /\ pc' = "setHostAndAccountId"
    /\ err' = err

Getenv(name) == Event("Getenv", << name >>)

\* only the host taken from the environment
EnvHostArgumentsHostOnly(e, a) == [a EXCEPT !.Host = e.DATABRICKS_HOST]

\* token.go 295-304: the auth arguments taken from the environment
EnvHostArguments(e, a) ==
    LET a1 == [a EXCEPT !.Host = e.DATABRICKS_HOST]
        a2 == IF e.DATABRICKS_ACCOUNT_ID # Empty
              THEN [a1 EXCEPT !.AccountID = e.DATABRICKS_ACCOUNT_ID] ELSE a1
        a3 == IF e.DATABRICKS_WORKSPACE_ID # Empty
              THEN [a2 EXCEPT !.WorkspaceID = e.DATABRICKS_WORKSPACE_ID] ELSE a2
    IN IF e.DATABRICKS_EXPERIMENTAL_IS_UNIFIED_HOST
       THEN [a3 EXCEPT !.IsUnifiedHost = TRUE] ELSE a3

\* token.go 294-306
EnvHost ==
    /\ pc = "resolveNoArgsToken"
    /\ IF env.DATABRICKS_HOST # Empty
       THEN    /\ ReturnResolved(Empty, Nil, EnvHostArguments(env, authArguments))
               /\ trace' = trace \o << Getenv("DATABRICKS_HOST"), Getenv("DATABRICKS_ACCOUNT_ID"),
                                       Getenv("DATABRICKS_WORKSPACE_ID"),
                                       Getenv("DATABRICKS_EXPERIMENTAL_IS_UNIFIED_HOST") >>
       ELSE /\ pc' = "envProfile"
            /\ trace' = trace \o << Getenv("DATABRICKS_HOST") >>
            /\ UNCHANGED << profileName, existingProfile, authArguments, err >>
    /\ UNCHANGED << file, disk, args, flags, env, promptSupported, matchingProfiles, selection,
                    loginName, loginArgs, loginProfile, token, fetchErr, saveVars, chainVars, libVars >>

\* token.go 309-315
EnvProfile ==
    /\ pc = "envProfile"
    /\ IF env.DATABRICKS_CONFIG_PROFILE # Empty
       THEN /\ ReturnResolved(env.DATABRICKS_CONFIG_PROFILE,
                              loadProfileByName(env.DATABRICKS_CONFIG_PROFILE, file),
                              authArguments)
            /\ trace' = trace \o << Getenv("DATABRICKS_CONFIG_PROFILE") >>
                              \o loadProfileByNameTrace(env.DATABRICKS_CONFIG_PROFILE)
       ELSE /\ pc' = "allProfiles"
            /\ trace' = trace \o << Getenv("DATABRICKS_CONFIG_PROFILE") >>
            /\ UNCHANGED << profileName, existingProfile, authArguments, err >>
    /\ UNCHANGED << file, disk, args, flags, env, promptSupported, matchingProfiles, selection,
                    loginName, loginArgs, loginProfile, token, fetchErr, saveVars, chainVars, libVars >>

\* token.go 324-332: without a prompt an error, else the profile picker
NoProfileStep(canPrompt, allProfiles) ==
    IF ~canPrompt
    THEN IF Len(allProfiles) > 0
         THEN [pc |-> "done", err |-> ErrNoProfileSpecified]
         ELSE [pc |-> "done", err |-> ErrNoProfilesConfigured]
    ELSE [pc |-> "promptForProfileSelection", err |-> Empty]

\* profile.ErrNoConfiguration
ErrNoConfiguration == << "no configuration file found" >>

\* the error of Profiler.LoadProfiles: ErrNoConfiguration when there is no file
LoadProfilesError(d) == IF d = "absent" THEN ErrNoConfiguration ELSE Empty

FatalLoadErrorAny(e) == e # Empty

\* token.go 320 (and 190): err != nil && !errors.Is(err, profile.ErrNoConfiguration)
FatalLoadError(e) == e # Empty /\ e # ErrNoConfiguration

\* token.go 319-329
AllProfiles ==
    /\ pc = "allProfiles"
    /\ trace' = trace \o << Event("LoadProfiles", << "MatchAllProfiles" >>) >>
    /\ IF FatalLoadError(LoadProfilesError(disk))
       THEN Fail(LoadProfilesError(disk))
       ELSE LET r == NoProfileStep(promptSupported, LoadProfiles(file, MatchAllProfiles)) IN
            pc' = r.pc /\ err' = r.err
    /\ UNCHANGED << file, disk, profileName, args, authArguments, flags, env, promptSupported,
                    existingProfile, matchingProfiles, selection, loginName, loginArgs,
                    loginProfile, token, fetchErr, saveVars, chainVars, libVars >>

\* token.go 332-348 and promptForProfileSelection (361-400)
PromptForProfileSelection ==
    /\ pc = "promptForProfileSelection"
    /\ LET allProfiles == LoadProfiles(file, MatchAllProfiles)
           shown == trace \o << Event("Prompt", << "Select a profile" >>) >>
       IN
       \/ /\ selection' = "error"
          /\ Fail(ErrInterrupt)
          /\ trace' = shown
          /\ UNCHANGED << profileName, existingProfile, authArguments >>
       \/ /\ selection' = "enterHostSelected"
          /\ ReturnResolved(Empty, Nil, authArguments)
          /\ trace' = shown
       \/ /\ selection' = "createNewSelected"
          /\ pc' = "runInlineLogin"
          /\ trace' = shown
          /\ UNCHANGED << profileName, existingProfile, authArguments, err >>
       \/ \E i \in 1..Len(allProfiles) :
            /\ selection' = "profileSelected"
            /\ ReturnResolved(allProfiles[i].Name,
                              loadProfileByName(allProfiles[i].Name, file), authArguments)
            /\ trace' = shown \o loadProfileByNameTrace(allProfiles[i].Name)
    /\ UNCHANGED << file, disk, args, flags, env, promptSupported, matchingProfiles,
                    loginName, loginArgs, loginProfile, token, fetchErr, saveVars, chainVars, libVars >>

\* the history of saves: the call, its outcome, and per section and key the
\* last value written and not cleared since
RecordSave(cfg, clearKeys, r) ==
    /\ saves' = saves + 1
    /\ lastSave' = [cfg |-> cfg, clearKeys |-> clearKeys, err |-> r.err, idx |-> r.idx]
    /\ written' =
         IF r.err # Empty THEN written
         ELSE LET n == r.file[r.idx].name
                  set == { << n, k >> : k \in Populated(cfg) \ clearKeys }
                  cleared == { << n, k >> : k \in clearKeys }
              IN [ e \in ((DOMAIN written \cup set) \ cleared) |->
                     IF e \in set THEN AttrString(cfg, e[2]) ELSE written[e] ]

\* token.go 406-417: runInlineLogin asks for the profile name
PromptForProfile ==
    /\ pc = "runInlineLogin"
    /\ trace' = trace \o << Event("Prompt", << "profile-name" >>) >>
    /\ \/ /\ Fail(ErrInterrupt)
          /\ UNCHANGED << loginName, loginProfile, loginArgs >>
       \/ \E name \in PromptProfileNames :
            /\ loginName' = name
            /\ loginProfile' = loadProfileByName(name, file)
            /\ loginArgs' = applyUnifiedHostFlags(loginProfile', NoAuthArguments)
            /\ pc' = "loginHost"
            /\ err' = err
    /\ UNCHANGED << file, disk, profileName, args, authArguments, flags, env, promptSupported,
                    existingProfile, matchingProfiles, selection, token, fetchErr, saveVars, chainVars, libVars >>

\* token.go 419-437
LoginHost ==
    /\ pc = "loginHost"
    /\ \E o \in setHostAndAccountId(loginProfile, loginArgs, << >>, promptSupported) :
         /\ trace' = trace \o o.trace
         /\ IF o.err # Empty
            THEN Fail(o.err) /\ UNCHANGED loginArgs
            ELSE /\ loginArgs' = [o.a EXCEPT !.Profile = loginName]
                 /\ pc' = "challenge"
                 /\ err' = err
    /\ UNCHANGED << file, disk, profileName, args, authArguments, flags, env, promptSupported,
                    existingProfile, matchingProfiles, selection, loginName, loginProfile,
                    token, fetchErr, saveVars, chainVars, libVars >>

ErrChallenge == << "oauth challenge failed" >>

\* token.go 426-437: the OAuth argument or the persistent auth cannot be built
ErrLoginSetup == << "oauth argument or persistent auth not built" >>

\* the error of the challenge not looked at
ChallengeStepUnchecked(e) == [pc |-> "saveProfile", err |-> e]

\* token.go 442-444: a failed challenge returns its error, else the save follows
ChallengeStep(e) ==
    IF e # Empty THEN [pc |-> "done", err |-> e] ELSE [pc |-> "saveProfile", err |-> Empty]

\* token.go 426-444
Challenge ==
    /\ pc = "challenge"
    /\ \/ Fail(ErrLoginSetup) /\ UNCHANGED trace
       \/ /\ trace' = trace \o << Event("Challenge", CacheKey(ToOAuthArgument(loginArgs))) >>
          /\ \E e \in { Empty, ErrChallenge } :
               LET r == ChallengeStep(e) IN pc' = r.pc /\ err' = r.err
    /\ UNCHANGED << file, disk, profileName, args, authArguments, flags, env, promptSupported,
                    existingProfile, matchingProfiles, selection, loginName, loginArgs,
                    loginProfile, token, fetchErr, saveVars, chainVars, libVars >>

authTypeDatabricksCLI == << "databricks-cli" >>

\* token.go 446-465, and the return to loadToken (155-156)
SaveLoginProfile ==
    /\ pc = "saveProfile"
    /\ LET cfg == [NoConfig EXCEPT !.Profile = loginName,
                                   !.Host = loginArgs.Host,
                                   !.AuthType = authTypeDatabricksCLI,
                                   !.AccountID = loginArgs.AccountID,
                                   !.WorkspaceID = loginArgs.WorkspaceID,
                                   !.Experimental_IsUnifiedHost = loginArgs.IsUnifiedHost]
           r == SaveToProfile(disk, file, cfg, {})
       IN /\ RecordSave(cfg, {}, r)
          /\ file' = r.file
          /\ disk' = r.disk
          /\ IF r.err # Empty
             THEN /\ Fail(r.err)
                  /\ trace' = trace \o << Event("SaveToProfile", loginName) >>
                  /\ UNCHANGED << profileName, existingProfile, authArguments >>
             ELSE /\ ReturnResolved(loginName, loadProfileByName(loginName, r.file), authArguments)
                  /\ trace' = trace \o << Event("SaveToProfile", loginName) >>
                                    \o loadProfileByNameTrace(loginName)
    /\ UNCHANGED << args, flags, env, promptSupported, matchingProfiles, selection,
                    loginName, loginArgs, loginProfile, token, fetchErr, chainVars, libVars >>

\* token.go 159-162
SetHostAndAccountId ==
    /\ pc = "setHostAndAccountId"
    /\ \E o \in setHostAndAccountId(existingProfile, authArguments, args, promptSupported) :
         /\ trace' = trace \o o.trace
         /\ authArguments' = o.a
         /\ IF o.err # Empty THEN Fail(o.err) ELSE pc' = "matchHost" /\ err' = err
    /\ UNCHANGED << file, disk, profileName, args, flags, env, promptSupported, existingProfile,
                    matchingProfiles, selection, loginName, loginArgs, loginProfile,
                    token, fetchErr, saveVars, chainVars, libVars >>

\* the host classified as given, without canonicalizing it first
HostMatchTestRawHost(a, p) ==
    IF HostType(a.Host, a.IsUnifiedHost) \in { "AccountHost", "UnifiedHost" }
    THEN WithHostAndAccountID(a.Host, a.AccountID, p)
    ELSE WithHost(a.Host, p)

\* token.go 173-189: the profiles of the store that match the host
HostMatchTest(a, p) ==
    IF HostType(CanonicalHostName(a.Host), a.IsUnifiedHost) \in { "AccountHost", "UnifiedHost" }
    THEN WithHostAndAccountID(a.Host, a.AccountID, p)
    ELSE WithHost(a.Host, p)

\* the picker shown whether or not prompting is supported
AmbiguousStepPrompts(canPrompt, found, host, configPath) ==
    [pc |-> "askForMatchingProfile", err |-> Empty]

\* token.go 193-203: several matches are an error without a prompt, else a picker
AmbiguousStep(canPrompt, found, host, configPath) ==
    IF ~canPrompt
    THEN [pc |-> "done", err |-> ErrAmbiguous(Names(found), host, configPath)]
    ELSE [pc |-> "askForMatchingProfile", err |-> Empty]

\* the match found but not adopted: the lookup stays keyed by host
AdoptedNone(found, pn, p) == [profileName |-> pn, existingProfile |-> p]

\* token.go 212-215: a single match is adopted, no match changes nothing
Adopted(found, pn, p) ==
    IF Len(found) = 1
    THEN [profileName |-> found[1].Name, existingProfile |-> << found[1] >>]
    ELSE [profileName |-> pn, existingProfile |-> p]

\* the scan left out whatever the host
NeedsHostMatchNever(name, a) == FALSE

\* token.go 172: the stored profiles are scanned when no profile is resolved
\* and a host is known, wherever the host came from
NeedsHostMatch(name, a) == name = Empty /\ a.Host # Empty

\* token.go 172-216, up to the picker
MatchHost ==
    /\ pc = "matchHost"
    /\ IF NeedsHostMatch(profileName, authArguments)
       THEN LET found == LoadProfiles(file, LAMBDA p : HostMatchTest(authArguments, p)) IN
            /\ trace' = trace \o << Event("LoadProfiles", << "match" >> \o authArguments.Host) >>
            /\ matchingProfiles' = found
            /\ IF Len(found) > 1
               THEN LET r == AmbiguousStep(promptSupported, found, authArguments.Host, ConfigPath) IN
                    /\ pc' = r.pc
                    /\ err' = r.err
                    /\ UNCHANGED << profileName, existingProfile >>
               ELSE LET r == Adopted(found, profileName, existingProfile) IN
                    /\ profileName' = r.profileName
                    /\ existingProfile' = r.existingProfile
                    /\ pc' = "checkM2M"
                    /\ err' = err
       ELSE /\ pc' = "checkM2M"
            /\ UNCHANGED << profileName, existingProfile, matchingProfiles, trace, err >>
    /\ UNCHANGED << file, disk, args, authArguments, flags, env, promptSupported, selection,
                    loginName, loginArgs, loginProfile, token, fetchErr, saveVars, chainVars, libVars >>

\* token.go 203-211 and askForMatchingProfile (266-283)
AskForMatchingProfile ==
    /\ pc = "askForMatchingProfile"
    /\ LET shown == trace \o << Event("Prompt", << "Multiple profiles match " >> \o authArguments.Host) >>
       IN
       \/ /\ Fail(ErrInterrupt)
          /\ trace' = shown
          /\ UNCHANGED << profileName, existingProfile >>
       \/ \E i \in 1..Len(matchingProfiles) :
            /\ profileName' = matchingProfiles[i].Name
            /\ existingProfile' = loadProfileByName(matchingProfiles[i].Name, file)
            /\ trace' = shown \o loadProfileByNameTrace(matchingProfiles[i].Name)
            /\ pc' = "checkM2M"
            /\ err' = err
    /\ UNCHANGED << file, disk, args, authArguments, flags, env, promptSupported, matchingProfiles,
                    selection, loginName, loginArgs, loginProfile, token, fetchErr, saveVars, chainVars, libVars >>

\* no check of the resolved profile
UsesM2MNever(p) == FALSE

\* token.go 220: the resolved profile holds client credentials
UsesM2M(p) == p # Nil /\ p[1].HasClientCredentials

\* token.go 220-229
CheckM2M ==
    /\ pc = "checkM2M"
    /\ IF UsesM2M(existingProfile)
       THEN Fail(ErrM2M(profileName)) /\ UNCHANGED authArguments
       ELSE /\ authArguments' = [authArguments EXCEPT !.Profile = profileName]
            /\ pc' = "token"
            /\ err' = err
    /\ UNCHANGED << file, disk, profileName, args, flags, env, promptSupported, existingProfile,
                    matchingProfiles, selection, loginName, loginArgs, loginProfile,
                    token, fetchErr, trace, saveVars, chainVars, libVars >>

ErrOther == << "token refresh: Databricks is down (error code: other_error)" >>

\* cache.ErrNotFound as persistentAuth.Token() returns it
ErrCacheNotFound == << "cache: ", "token not found" >>

\* u2m.InvalidRefreshTokenError as persistentAuth.Token() returns it
ErrInvalidRefreshToken == << "token refresh: ", "refresh token is invalid" >>

\* what persistentAuth.Token() can return as its error
FetchError(outcome) ==
    CASE outcome = "ok" -> Empty
      [] outcome = "not-found" -> ErrCacheNotFound
      [] outcome = "invalid-refresh-token" -> ErrInvalidRefreshToken
      [] outcome = "other" -> ErrOther

NotFoundKept(e) == e

\* token.go 244-255: errors.Is(err, cache.ErrNotFound) replaces the error
NotFoundReplaced(e) == IF e = ErrCacheNotFound THEN ErrNotConfigured ELSE e

RewrittenNever(e) == FALSE

\* error.go 242-243: errors.As(err, &u2m.InvalidRefreshTokenError{})
Rewritten(e) == e = ErrInvalidRefreshToken

\* token.go 243-261: the error loadToken returns for a failed fetch
FetchFailure(e, a, pn, oauthArgument) ==
    LET replaced == NotFoundReplaced(e) IN
    IF Rewritten(replaced)
    THEN RewriteAuthError(a.Host, a.AccountID, pn)
    ELSE replaced \o << ". " >> \o helpfulError(pn, oauthArgument)

\* token.go 231-263: the token is asked of the persistent cache
Token ==
    /\ pc = "token"
    /\ LET oauthArgument == ToOAuthArgument(authArguments) IN
       /\ trace' = trace \o << Event("Token", CacheKey(oauthArgument)) >>
       /\ pc' = "done"
       /\ \E outcome \in TokenOutcomes :
            /\ fetchErr' = FetchError(outcome)
            /\ IF fetchErr' = Empty
               THEN token' = << "new-access-token" >> /\ err' = err
               ELSE /\ err' = FetchFailure(fetchErr', authArguments, profileName, oauthArgument)
                    /\ token' = token
    /\ UNCHANGED << file, disk, profileName, args, authArguments, flags, env, promptSupported,
                    existingProfile, matchingProfiles, selection, loginName, loginArgs,
                    loginProfile, saveVars, chainVars, libVars >>

Next ==
    \/ Call
    \/ CheckProfileAndArgs
    \/ ResolvePositional
    \/ LoadExisting
    \/ EnvHost
    \/ EnvProfile
    \/ AllProfiles
    \/ PromptForProfileSelection
    \/ PromptForProfile
    \/ LoginHost
    \/ Challenge
    \/ SaveLoginProfile
    \/ SetHostAndAccountId
    \/ MatchHost
    \/ AskForMatchingProfile
    \/ CheckM2M
    \/ Token

Spec == Init /\ [][Next]_vars

----------------------------------------------------------------------------
(* Saves to the profile file, as the configure and login commands make them *)

HFoo == << "https://", "foo" >>
HNewHost == << "https://", "new-host" >>

HQuery == << "https://", "query" >>

\* libs/databrickscfg/profile/testdata/databrickscfg as the tests read it
StoredFile ==
    << Section(DEFAULT, << >>),
       Section(<< "query" >>, Kv("host", HQuery) @@ Kv("token", << "query" >>)),
       Section(<< "acc" >>, Kv("host", HAccounts) @@ Kv("account_id", << "abc" >>)),
       Section(<< "foo1" >>, Kv("host", HFoo) @@ Kv("token", << "foo1" >>)),
       Section(<< "foo2" >>, Kv("host", HFoo) @@ Kv("token", << "foo2" >>)) >>

SaveFiles == { FreshFile, StoredFile }

\* cfg.Profile, cfg.Host and cfg.AccountID of a save
SaveTargets ==
    { << Empty, Empty, Empty >>, << Empty, HFoo, Empty >>,
      << Empty, WithPath(HQuery), Empty >>,
      << Empty, Empty, << "abc" >> >>, << Empty, HFoo, << "abc" >> >>,
      << Empty, WithPath(HQuery), << "abc" >> >>,
      << << "abc" >>, HFoo, Empty >>, << << "abc" >>, HNewHost, Empty >>,
      << << "abc" >>, WithPath(HQuery), << "abc" >> >>,
      << DEFAULT, HFoo, Empty >> }

\* cfg.Token, cfg.ClusterID and cfg.AuthType of a save
SavePayloads ==
    { << << "xyz" >>, Empty, Empty >>,
      << << "xyz" >>, << "cluster-123" >>, Empty >>,
      << Empty, Empty, authTypeDatabricksCLI >> }

SaveConfigs ==
    { [NoConfig EXCEPT !.Profile = t[1], !.Host = t[2], !.AccountID = t[3],
                       !.Token = pl[1], !.ClusterID = pl[2], !.AuthType = pl[3]] :
        t \in SaveTargets, pl \in SavePayloads }

ClearKeySets == { {}, { "token", "cluster_id" }, { "token", "nonexistent_key" } }

InitSave ==
    /\ disk \in DiskStates
    /\ file \in (IF disk = "parsed" THEN SaveFiles ELSE { NoFile })
    /\ InitCommand

\* databrickscfg.SaveToProfile called on the file
Save ==
    /\ pc = "idle"
    /\ saves < MaxSaves
    /\ \E cfg \in SaveConfigs, clearKeys \in ClearKeySets :
         LET r == SaveToProfile(disk, file, cfg, clearKeys) IN
         /\ file' = r.file
         /\ disk' = r.disk
         /\ RecordSave(cfg, clearKeys, r)
    /\ UNCHANGED << tokenVars, chainVars, libVars >>

NextSave == Save

SpecSave == InitSave /\ [][NextSave]_vars

----------------------------------------------------------------------------
(* The credential chain of the CLI (libs/auth/credentials.go) *)

credentialChainCliFirst ==
    << "databricks-cli", "basic", "oauth-m2m", "pat", "metadata-service",
       "github-oidc", "azure-devops-oidc", "env-oidc", "file-oidc",
       "github-oidc-azure", "azure-msi", "azure-client-secret", "azure-cli",
       "google-credentials", "google-id" >>

\* credentials.go 23-42, each strategy by its Name()
credentialChain ==
    << "pat", "basic", "oauth-m2m", "databricks-cli", "metadata-service",
       "github-oidc", "azure-devops-oidc", "env-oidc", "file-oidc",
       "github-oidc-azure", "azure-msi", "azure-client-secret", "azure-cli",
       "google-credentials", "google-id" >>

\* credentials.go 82
errNoHost == << "no host provided" >>

ErrStrategy(name) == << name, ": cannot configure" >>

ErrCannotConfigureDefault == << "cannot configure default credentials" >>

\* outcomes of a strategy's Configure: nothing to offer, a provider, an error
NotApplicable == [kind |-> "none", err |-> Empty]
Provider == [kind |-> "provider", err |-> Empty]
Failure(e) == [kind |-> "error", err |-> e]

FromEnv(name, e) ==
    CASE e[name] = "provider" -> Provider
      [] e[name] = "error" -> Failure(ErrStrategy(name))
      [] OTHER -> NotApplicable

\* CLICredentials.Configure (credentials.go 92-108)
CLIConfigure(cfg, e) ==
    IF cfg.Host = Empty THEN Failure(errNoHost)
    ELSE IF e["databricks-cli"] = "provider" THEN Provider
    ELSE Failure(ErrStrategy("databricks-cli"))

\* Configure of the strategy of the given name
StrategyConfigure(name, cfg, e) ==
    CASE name = "pat" ->
           IF cfg.Token # Empty /\ cfg.Host # Empty THEN Provider ELSE NotApplicable
      [] name = "basic" -> NotApplicable
      [] name = "oauth-m2m" ->
           IF cfg.ClientID # Empty /\ cfg.ClientSecret # Empty /\ cfg.Host # Empty
           THEN (IF e[name] = "error" THEN Failure(ErrStrategy(name)) ELSE Provider)
           ELSE NotApplicable
      [] name = "databricks-cli" -> CLIConfigure(cfg, e)
      [] name \in EnvStrategies -> FromEnv(name, e)
      [] OTHER -> NotApplicable

DecidesOnlyProvider(o) == o.kind = "provider"

\* the strategy is applicable: its provider or its error is the chain's answer
Decides(o) == o.kind # "none"

ChainHosts == { Empty, HUnique }

ChainConfigs ==
    { [NoConfig EXCEPT !.Host = h, !.Token = t, !.ClientID = c[1], !.ClientSecret = c[2],
                       !.Profile = pr] :
        h \in ChainHosts, t \in { Empty, << "xyz" >> },
        c \in { << Empty, Empty >>, << << "id" >>, << "secret" >> >> },
        pr \in { Empty, << "unique-ws" >> } }

ChainEnvs == [EnvStrategies -> { "none", "provider", "error" }]

\* config.DefaultCredentialStrategyProvider's strategy is asked to configure
\* (credentials.go 44-49, 64-66)
ChainConfigure ==
    /\ chainPos = 0
    /\ \E cfg \in ChainConfigs, e \in ChainEnvs :
         chainCfg' = cfg /\ chainEnv' = e
    /\ chainPos' = 1
    /\ UNCHANGED << chainTried, chainResult, file, disk, tokenVars, saveVars, libVars >>

\* the chain calls Configure of its next strategy
ChainTry ==
    /\ chainPos \in 1..Len(credentialChain)
    /\ chainResult = << >>
    /\ LET name == credentialChain[chainPos]
           o == StrategyConfigure(name, chainCfg, chainEnv)
       IN /\ chainTried' = Append(chainTried, name)
          /\ chainPos' = chainPos + 1
          /\ chainResult' =
               IF Decides(o) THEN << [name |-> name, err |-> o.err] >>
               ELSE IF chainPos = Len(credentialChain)
               THEN << [name |-> "", err |-> ErrCannotConfigureDefault] >>
               ELSE << >>
    /\ UNCHANGED << chainCfg, chainEnv, file, disk, tokenVars, saveVars, libVars >>

\* defaultCredentials.Name (credentials.go 57-62)
DefaultName ==
    IF chainResult # << >> /\ chainResult[1].err = Empty /\ chainResult[1].name # ""
    THEN chainResult[1].name
    ELSE "default"

NextChain == ChainConfigure \/ ChainTry

InitChain ==
    /\ disk = "parsed"
    /\ file = FreshFile
    /\ InitCommand

SpecChain == InitChain /\ [][NextChain]_vars

----------------------------------------------------------------------------
(* The databricks-cli credentials strategy (libs/auth/credentials.go) *)

\* the error of the test's persistentAuthFn
testErr == << "test error" >>

\* the access token the token source supplies after g renewals
AccessToken(g) == << "token-", ToString(g) >>

ConfigureCacheFirst(cfg, fn) ==
    IF fn.err # Empty THEN [provider |-> FALSE, err |-> fn.err, calls |-> 1]
    ELSE IF cfg.Host = Empty THEN [provider |-> FALSE, err |-> errNoHost, calls |-> 1]
    ELSE [provider |-> TRUE, err |-> Empty, calls |-> 1]

\* CLICredentials.Configure (credentials.go 92-108): the provider or the
\* error it returns, and how many times it asked for the persistent auth
Configure(cfg, fn) ==
    IF cfg.Host = Empty THEN [provider |-> FALSE, err |-> errNoHost, calls |-> 0]
    ELSE IF fn.err # Empty THEN [provider |-> FALSE, err |-> fn.err, calls |-> 1]
    ELSE [provider |-> TRUE, err |-> Empty, calls |-> 1]

\* the value the provider gives the Authorization header
BearerHeader(tok) == << "Bearer " >> \o tok

CliConfigs ==
    { [NoConfig EXCEPT !.Host = t[1], !.AccountID = t[2], !.WorkspaceID = t[3],
                       !.Experimental_IsUnifiedHost = t[4], !.Profile = pr] :
        t \in { << Empty, Empty, Empty, FALSE >>,
                << HUnique, Empty, Empty, FALSE >>,
                << HAccounts, << "test-account-id" >>, Empty, FALSE >>,
                << HUnified, << "test-account-id" >>, << "123" >>, TRUE >> },
        pr \in { Empty, << "unique-ws" >> } }

\* a source that never fails has failsAt beyond the last renewal
CliAuthFns ==
    { [err |-> testErr, failsAt |-> 0] }
      \cup { [err |-> Empty, failsAt |-> n] : n \in 0..(MaxRenewals + 1) }

\* c.Configure(ctx, cfg)
CLICredentialsConfigure ==
    /\ cliResult = << >>
    /\ \E cfg \in CliConfigs, fn \in CliAuthFns :
         LET r == Configure(cfg, fn) IN
         /\ cliCfg' = cfg
         /\ cliAuthFn' = fn
         /\ cliCalls' = cliCalls + r.calls
         /\ cliResult' = << [provider |-> r.provider, err |-> r.err] >>
    /\ UNCHANGED << cliGeneration, cliCached, cliHeader,
                    file, disk, tokenVars, saveVars, chainVars, moreVars, matchVars, enrichVars,
                    compVars >>

\* the cached token expires and the token source renews its token
TokenExpires ==
    /\ cliResult # << >> /\ cliResult[1].provider
    /\ cliCached # << >>
    /\ cliGeneration < MaxRenewals
    /\ cliGeneration' = cliGeneration + 1
    /\ cliCached' = << >>
    /\ UNCHANGED << cliCfg, cliAuthFn, cliCalls, cliResult, cliHeader,
                    file, disk, tokenVars, saveVars, chainVars, moreVars, matchVars, enrichVars,
                    compVars >>

\* got.SetHeaders(req): the cached token source serves its token while it is
\* valid and asks the token source otherwise
SetHeaders ==
    /\ cliResult # << >> /\ cliResult[1].provider
    /\ IF cliCached = << >> /\ cliGeneration = cliAuthFn.failsAt
       THEN cliCached' = << >> /\ cliHeader' = << >>
       ELSE LET tok == IF cliCached # << >> THEN cliCached[1]
                       ELSE AccessToken(cliGeneration)
            IN /\ cliCached' = << tok >>
               /\ cliHeader' = BearerHeader(tok)
    /\ UNCHANGED << cliCfg, cliAuthFn, cliCalls, cliResult, cliGeneration,
                    file, disk, tokenVars, saveVars, chainVars, moreVars, matchVars, enrichVars,
                    compVars >>

NextCLI == CLICredentialsConfigure \/ TokenExpires \/ SetHeaders

InitCLI ==
    /\ disk = "parsed"
    /\ file = FreshFile
    /\ InitCommand

SpecCLI == InitCLI /\ [][NextCLI]_vars

----------------------------------------------------------------------------
(* The profile matchers applied to one profile (profiler.go) *)

HMyWorkspace == << "https://", "myworkspace.", "cloud.databricks.com" >>
HOther == << "https://", "other.", "cloud.databricks.com" >>

\* the scheme and authority the hosts are written from
BaseHosts == { HMyWorkspace, HAccounts, HOther }

\* the same host with a trailing slash
WithSlash(h) == h \o << "/" >>

\* the ways one host is written: with or without scheme, with a trailing
\* slash, with a path and a query
Variants(b) ==
    { b, NoScheme(b), WithSlash(b), WithPath(b), NoScheme(WithSlash(b)),
      NoScheme(WithPath(b)) }

MatchHosts == { Empty } \cup UNION { Variants(b) : b \in BaseHosts }

MatchAccountIDs == { Empty, << "abc123" >>, << "xyz789" >> }

MatchNames == { Empty, << "dev" >>, << "staging" >>, << "production" >> }

\* the names given to MatchProfileNames
NameLists ==
    UNION { [1..n -> { Empty, << "dev" >>, << "staging" >> }] : n \in 0..MaxNames }

MatchProfiles ==
    { [NoProfile EXCEPT !.Name = n, !.Host = h, !.AccountID = a,
                        !.WorkspaceID = w, !.IsUnifiedHost = u] :
        n \in MatchNames, h \in { Empty, HMyWorkspace, HAccounts },
        a \in MatchAccountIDs, w \in { Empty, << "123" >> }, u \in BOOLEAN }

MatchCallOf(fn, host, accountID, names, p) ==
    [fn |-> fn, host |-> host, accountID |-> accountID, names |-> names,
     profile |-> p]

\* canonicalizeHost(host)
CanonicalizeHost ==
    /\ matchCall = NoMatchCall
    /\ \E h \in MatchHosts :
         /\ matchCall' = MatchCallOf("canonicalizeHost", h, Empty, << >>, NoProfile)
         /\ matchCanon' = canonicalizeHost(h)
    /\ matchResult' = FALSE
    /\ UNCHANGED << file, disk, tokenVars, saveVars, chainVars, moreVars, cliVars, enrichVars,
                    compVars >>

\* canonicalizeHost applied to what it returned
CanonicalizeAgain ==
    /\ matchCall.fn = "canonicalizeHost"
    /\ matchCall' = [matchCall EXCEPT !.host = matchCanon]
    /\ matchCanon' = canonicalizeHost(matchCanon)
    /\ UNCHANGED << matchResult, file, disk, tokenVars, saveVars, chainVars, moreVars, cliVars,
                    enrichVars, compVars >>

\* WithHost(host)(p)
ApplyWithHost ==
    /\ matchCall = NoMatchCall
    /\ \E h \in MatchHosts, p \in MatchProfiles :
         /\ matchCall' = MatchCallOf("WithHost", h, Empty, << >>, p)
         /\ matchResult' = WithHost(h, p)
    /\ matchCanon' = Empty
    /\ UNCHANGED << file, disk, tokenVars, saveVars, chainVars, moreVars, cliVars, enrichVars,
                    compVars >>

\* WithHostAndAccountID(host, accountID)(p)
ApplyWithHostAndAccountID ==
    /\ matchCall = NoMatchCall
    /\ \E h \in MatchHosts, a \in MatchAccountIDs, p \in MatchProfiles :
         /\ matchCall' = MatchCallOf("WithHostAndAccountID", h, a, << >>, p)
         /\ matchResult' = WithHostAndAccountID(h, a, p)
    /\ matchCanon' = Empty
    /\ UNCHANGED << file, disk, tokenVars, saveVars, chainVars, moreVars, cliVars, enrichVars,
                    compVars >>

\* MatchProfileNames(names...)(p)
ApplyMatchProfileNames ==
    /\ matchCall = NoMatchCall
    /\ \E names \in NameLists, p \in MatchProfiles :
         /\ matchCall' = MatchCallOf("MatchProfileNames", Empty, Empty, names, p)
         /\ matchResult' = MatchProfileNames(names, p)
    /\ matchCanon' = Empty
    /\ UNCHANGED << file, disk, tokenVars, saveVars, chainVars, moreVars, cliVars, enrichVars,
                    compVars >>

\* MatchWorkspaceProfiles(p), MatchAccountProfiles(p), MatchAllProfiles(p)
ApplyMatchWorkspaceProfiles ==
    /\ matchCall = NoMatchCall
    /\ \E p \in MatchProfiles :
         /\ matchCall' = MatchCallOf("MatchWorkspaceProfiles", Empty, Empty, << >>, p)
         /\ matchResult' = MatchWorkspaceProfiles(p)
    /\ matchCanon' = Empty
    /\ UNCHANGED << file, disk, tokenVars, saveVars, chainVars, moreVars, cliVars, enrichVars,
                    compVars >>

ApplyMatchAccountProfiles ==
    /\ matchCall = NoMatchCall
    /\ \E p \in MatchProfiles :
         /\ matchCall' = MatchCallOf("MatchAccountProfiles", Empty, Empty, << >>, p)
         /\ matchResult' = MatchAccountProfiles(p)
    /\ matchCanon' = Empty
    /\ UNCHANGED << file, disk, tokenVars, saveVars, chainVars, moreVars, cliVars, enrichVars,
                    compVars >>

ApplyMatchAllProfiles ==
    /\ matchCall = NoMatchCall
    /\ \E p \in MatchProfiles :
         /\ matchCall' = MatchCallOf("MatchAllProfiles", Empty, Empty, << >>, p)
         /\ matchResult' = MatchAllProfiles(p)
    /\ matchCanon' = Empty
    /\ UNCHANGED << file, disk, tokenVars, saveVars, chainVars, moreVars, cliVars, enrichVars,
                    compVars >>

NextMatch ==
    \/ CanonicalizeHost
    \/ CanonicalizeAgain
    \/ ApplyWithHost
    \/ ApplyWithHostAndAccountID
    \/ ApplyMatchProfileNames
    \/ ApplyMatchWorkspaceProfiles
    \/ ApplyMatchAccountProfiles
    \/ ApplyMatchAllProfiles

InitMatch ==
    /\ disk = "parsed"
    /\ file = FreshFile
    /\ InitCommand

SpecMatch == InitMatch /\ [][NextMatch]_vars

----------------------------------------------------------------------------
(* Errors of API calls and their enrichment (libs/auth/error.go) *)

\* an error: its text, the API error it is (apierr.APIError) if it is one,
\* and the error it wraps if it wraps one
PlainError(text) == [text |-> text, api |-> << >>, unwrap |-> << >>]

APIError(status, code, message) ==
    [text |-> message, api |-> << [StatusCode |-> status, ErrorCode |-> code] >>,
     unwrap |-> << >>]

\* fmt.Errorf(prefix + "%w", e)
Wrapping(prefix, e) == [text |-> prefix \o e.text, api |-> << >>, unwrap |-> << e >>]

RECURSIVE As(_)
\* errors.As(err, &apiErr): the first API error in the chain, << >> when none
As(e) ==
    IF e.api # << >> THEN e.api
    ELSE IF e.unwrap # << >> THEN As(e.unwrap[1])
    ELSE << >>

\* strings.ToLower on the auth type names
LowerToken(t) ==
    CASE t = "PAT" -> "pat"
      [] t = "Databricks-CLI" -> "databricks-cli"
      [] OTHER -> t

ToLower(str) == [i \in DOMAIN str |-> LowerToken(str[i])]

\* AuthTypeDisplayName
AuthTypeDisplayName(authType) ==
    LET t == ToLower(authType) IN
    CASE t = << "databricks-cli" >> -> << "OAuth (databricks-cli)" >>
      [] t = << "pat" >> -> << "Personal Access Token (pat)" >>
      [] t = << "basic" >> -> << "Basic" >>
      [] t = << "azure-cli" >> -> << "Azure CLI (azure-cli)" >>
      [] t = << "oauth-m2m" >> -> << "OAuth Machine-to-Machine (oauth-m2m)" >>
      [] t = << "azure-msi" >> -> << "Azure Managed Identity (azure-msi)" >>
      [] OTHER -> authType

\* BuildDescribeCommand
BuildDescribeCommand(cfg) ==
    IF cfg.Profile # Empty
    THEN << "databricks auth describe --profile " >> \o cfg.Profile
    ELSE << "databricks auth describe" >>

\* writeReauthSteps; argErr tells whether ToOAuthArgument fails on the config
writeReauthSteps(cfg, argErr) ==
    LET t == ToLower(cfg.AuthType) IN
    CASE t = << "databricks-cli" >> ->
           IF cfg.Profile # Empty
           THEN << "\n  - Re-authenticate: ", "databricks auth login --profile " >>
                  \o cfg.Profile
           ELSE IF argErr
           THEN << "\n  - Re-authenticate: ", "databricks", " ", "auth", " ", "login" >>
           ELSE LET oauthArg == ToOAuthArgument(
                        [NoAuthArguments EXCEPT !.Host = cfg.Host,
                            !.AccountID = cfg.AccountID,
                            !.WorkspaceID = cfg.WorkspaceID,
                            !.IsUnifiedHost = cfg.Experimental_IsUnifiedHost])
                    loginCmd == BuildLoginCommand(Empty, oauthArg)
                IN << "\n  - Re-authenticate: " >> \o loginCmd \o
                     ( IF cfg.Experimental_IsUnifiedHost /\ cfg.WorkspaceID # Empty
                       THEN << " --workspace-id " >> \o cfg.WorkspaceID
                       ELSE << >> )
      [] t = << "pat" >> ->
           IF cfg.Profile # Empty
           THEN << "\n  - Regenerate your access token or run: databricks configure --profile " >>
                  \o cfg.Profile
           ELSE << "\n  - Regenerate your access token" >>
      [] t = << "basic" >> ->
           IF cfg.Profile # Empty
           THEN << "\n  - Check your username/password or run: databricks configure --profile " >>
                  \o cfg.Profile
           ELSE << "\n  - Check your username and password" >>
      [] t = << "azure-cli" >> -> << "\n  - Re-authenticate with Azure: az login" >>
      [] t = << "oauth-m2m" >> ->
           << "\n  - Check your service principal client ID and secret" >>
      [] OTHER -> << "\n  - Check your authentication credentials" >>

PermissionStep == << "\n  - Verify you have the required permissions for this operation" >>

StatusUnauthorized == 401
StatusForbidden == 403

NextStepsByAuthType(status, cfg, argErr) ==
    IF ToLower(cfg.AuthType) = << "databricks-cli" >> \/ status = StatusUnauthorized
    THEN writeReauthSteps(cfg, argErr)
    ELSE PermissionStep

\* EnrichAuthError, the first line under "Next steps:"
NextSteps(status, cfg, argErr) ==
    IF status = StatusUnauthorized THEN writeReauthSteps(cfg, argErr)
    ELSE PermissionStep

\* what EnrichAuthError appends to the text of a 401 or 403 API error
EnrichedBlocks(status, cfg, argErr) ==
    ( IF cfg.Profile # Empty THEN << "\nProfile:   " >> \o cfg.Profile ELSE << >> )
      \o ( IF cfg.Host # Empty THEN << "\nHost:      " >> \o cfg.Host ELSE << >> )
      \o ( IF cfg.AuthType # Empty
           THEN << "\nAuth type: " >> \o AuthTypeDisplayName(cfg.AuthType)
           ELSE << >> )
      \o << "\n\nNext steps:" >>
      \o NextSteps(status, cfg, argErr)
      \o << "\n  - Check your identity: " >> \o BuildDescribeCommand(cfg)
      \o ( IF cfg.Profile = Empty
           THEN << "\n  - Consider configuring a profile: databricks configure --profile <name>" >>
           ELSE << >> )

EnrichAuthErrorNewError(cfg, e, argErr) ==
    LET apiErr == As(e) IN
    IF apiErr = << >> THEN e
    ELSE IF apiErr[1].StatusCode \notin { StatusUnauthorized, StatusForbidden } THEN e
    ELSE PlainError(e.text \o << "\n" >>
                      \o EnrichedBlocks(apiErr[1].StatusCode, cfg, argErr))

\* EnrichAuthError: fmt.Errorf("%w\n%s", err, b.String()) for 401 and 403
EnrichAuthError(cfg, e, argErr) ==
    LET apiErr == As(e) IN
    IF apiErr = << >> THEN e
    ELSE IF apiErr[1].StatusCode \notin { StatusUnauthorized, StatusForbidden } THEN e
    ELSE [text |-> e.text \o << "\n" >>
                     \o EnrichedBlocks(apiErr[1].StatusCode, cfg, argErr),
          api |-> << >>, unwrap |-> << e >>]

EnrichAuthTypes ==
    { Empty, << "databricks-cli" >>, << "pat" >>, << "basic" >>, << "azure-cli" >>,
      << "oauth-m2m" >>, << "azure-msi" >>, << "some-future-auth" >>, << "PAT" >> }

EnrichConfigs ==
    { [NoConfig EXCEPT !.Host = t[1], !.AccountID = t[2], !.WorkspaceID = t[3],
                       !.Experimental_IsUnifiedHost = t[4], !.Profile = pr,
                       !.AuthType = at] :
        t \in { << Empty, Empty, Empty, FALSE >>,
                << HMyWorkspace, Empty, Empty, FALSE >>,
                << HAccounts, << "abc123" >>, Empty, FALSE >>,
                << HUnified, << "acc-123" >>, << "ws-456" >>, TRUE >> },
        pr \in { Empty, << "dev" >> }, at \in EnrichAuthTypes }

TestAPIError(status) == APIError(status, "TEST_ERROR", << "test error message" >>)

EnrichErrors ==
    { PlainError(<< "some random error" >>) }
      \cup { TestAPIError(st) : st \in { 401, 403, 404 } }
      \cup { Wrapping(<< "listing clusters: " >>, TestAPIError(st)) :
               st \in { 401, 403, 404 } }

\* EnrichAuthError(ctx, cfg, err)
Enrich ==
    /\ enrichCall = << >>
    /\ \E cfg \in EnrichConfigs, e \in EnrichErrors, argErr \in BOOLEAN :
         /\ enrichCall' = << [cfg |-> cfg, err |-> e, argErr |-> argErr] >>
         /\ enrichOut' = << EnrichAuthError(cfg, e, argErr) >>
    /\ UNCHANGED << file, disk, tokenVars, saveVars, chainVars, moreVars, cliVars, matchVars,
                    compVars >>

NextEnrich == Enrich

InitEnrich ==
    /\ disk = "parsed"
    /\ file = FreshFile
    /\ InitCommand

SpecEnrich == InitEnrich /\ [][NextEnrich]_vars

----------------------------------------------------------------------------
(* Shell completion: Install, Status and Uninstall (libs/completion) *)

\* A file's content is a sequence of tokens: the text of a line, or a newline
NL == "\n"

BeginMarker == "# BEGIN databricks-cli completion"
EndMarker == "# END databricks-cli completion"

Bash == "bash"
Zsh == "zsh"
Fish == "fish"
PowerShell == "powershell"

Shells == { Bash, Zsh, Fish, PowerShell }

\* ShimContent(shell)
ShimContent(shell) ==
    LET evalLine ==
          CASE shell = Bash -> "eval \"$(databricks completion bash)\""
            [] shell = Zsh -> "eval \"$(databricks completion zsh)\""
            [] shell = Fish -> "databricks completion fish | source"
            [] OTHER -> "databricks completion powershell | Out-String | Invoke-Expression"
    IN << BeginMarker, NL, evalLine, NL, EndMarker, NL >>

Absent == << >>

\* strings.Contains(content, BeginMarker) on a file that can be read
HasMarker(f) == f # Absent /\ \E i \in 1..Len(f[1]) : f[1][i] = BeginMarker

StatusHomebrewFirst(shell, f, homebrew) ==
    IF shell = Zsh /\ homebrew THEN [Installed |-> TRUE, Method |-> "homebrew"]
    ELSE IF HasMarker(f) THEN [Installed |-> TRUE, Method |-> "marker"]
    ELSE IF shell = Fish /\ f # Absent THEN [Installed |-> TRUE, Method |-> "file"]
    ELSE [Installed |-> FALSE, Method |-> ""]

StatusNoMarker(shell, f, homebrew) ==
    IF shell = Fish /\ f # Absent THEN [Installed |-> TRUE, Method |-> "file"]
    ELSE IF shell = Zsh /\ homebrew THEN [Installed |-> TRUE, Method |-> "homebrew"]
    ELSE [Installed |-> FALSE, Method |-> ""]

\* Status(shell, homeDir)
Status(shell, f, homebrew) ==
    IF HasMarker(f) THEN [Installed |-> TRUE, Method |-> "marker"]
    ELSE IF shell = Fish /\ f # Absent THEN [Installed |-> TRUE, Method |-> "file"]
    ELSE IF shell = Zsh /\ homebrew THEN [Installed |-> TRUE, Method |-> "homebrew"]
    ELSE [Installed |-> FALSE, Method |-> ""]

ErrWrite == << "open: ", "permission denied" >>

\* the result of a call: the file it leaves, its boolean, its error
Outcome(f, flag, e) == [file |-> f, flag |-> flag, err |-> e]

\* installFish
installFish(f, shell, writable) ==
    IF ~writable THEN Outcome(f, FALSE, ErrWrite)
    ELSE Outcome(<< ShimContent(shell) >>, FALSE, Empty)

\* installRC
installRC(f, shell, writable) ==
    LET content == IF f # Absent THEN f[1] ELSE << >>
        shim == IF Len(content) > 0 /\ content[Len(content)] # NL
                THEN << NL >> \o ShimContent(shell)
                ELSE ShimContent(shell)
    IN IF ~writable THEN Outcome(f, FALSE, ErrWrite)
       ELSE Outcome(<< content \o shim >>, FALSE, Empty)

InstallFileNoWrite(shell, f, homebrew, writable) ==
    LET status == Status(shell, f, homebrew) IN
    IF shell = Fish /\ status.Installed THEN Outcome(f, TRUE, Empty)
    ELSE IF status.Method = "marker" THEN Outcome(f, TRUE, Empty)
    ELSE Outcome(f, FALSE, Empty)

\* Install(shell, homeDir)
InstallFile(shell, f, homebrew, writable) ==
    LET status == Status(shell, f, homebrew) IN
    IF shell = Fish /\ status.Installed THEN Outcome(f, TRUE, Empty)
    ELSE IF status.Method = "marker" THEN Outcome(f, TRUE, Empty)
    ELSE IF shell = Fish THEN installFish(f, shell, writable)
    ELSE installRC(f, shell, writable)

RECURSIVE CollapseBlankLines(_)
\* multiBlankLine.ReplaceAllString(result, "\n\n")
CollapseBlankLines(text) ==
    IF Len(text) < 3 THEN text
    ELSE IF text[1] = NL /\ text[2] = NL /\ text[3] = NL
         THEN CollapseBlankLines(Tail(text))
         ELSE << Head(text) >> \o CollapseBlankLines(Tail(text))

\* the error of uninstallRC for a begin marker without an end marker after it
ErrCorrupted(line) ==
    << "found corrupted completion block: ", "missing end marker",
       ". Please remove the block starting at line ", ToString(line), " manually" >>

beginLineZeroBased(text, beginIdx) ==
    Cardinality({ j \in 1..(beginIdx - 1) : text[j] = NL })

\* strings.Count(text[:beginIdx], "\n") + 1
beginLine(text, beginIdx) ==
    Cardinality({ j \in 1..(beginIdx - 1) : text[j] = NL }) + 1

uninstallFishAnyFile(f, writable) ==
    IF f = Absent THEN Outcome(f, FALSE, Empty)
    ELSE IF ~writable THEN Outcome(f, FALSE, ErrWrite)
    ELSE Outcome(Absent, TRUE, Empty)

\* uninstallFish
uninstallFish(f, writable) ==
    IF f = Absent THEN Outcome(f, FALSE, Empty)
    ELSE IF ~HasMarker(f) THEN Outcome(f, FALSE, Empty)
    ELSE IF ~writable THEN Outcome(f, FALSE, ErrWrite)
    ELSE Outcome(Absent, TRUE, Empty)

\* uninstallRC
uninstallRC(f, writable) ==
    IF f = Absent THEN Outcome(f, FALSE, Empty)
    ELSE IF ~HasMarker(f) THEN Outcome(f, FALSE, Empty)
    ELSE
      LET text == f[1]
          beginIdx == CHOOSE i \in 1..Len(text) :
                        text[i] = BeginMarker /\ \A j \in 1..(i - 1) : text[j] # BeginMarker
          ends == { i \in beginIdx..Len(text) : text[i] = EndMarker }
      IN IF ends = {} THEN Outcome(f, FALSE, ErrCorrupted(beginLine(text, beginIdx)))
         ELSE
           LET endIdx == CHOOSE i \in ends : \A j \in ends : i <= j
               blockEnd == IF endIdx < Len(text) /\ text[endIdx + 1] = NL
                           THEN endIdx + 1 ELSE endIdx
               result == CollapseBlankLines(
                           SubSeq(text, 1, beginIdx - 1)
                             \o SubSeq(text, blockEnd + 1, Len(text)))
           IN IF ~writable THEN Outcome(f, TRUE, ErrWrite)
              ELSE Outcome(<< result >>, TRUE, Empty)

\* Uninstall(shell, homeDir)
UninstallFile(shell, f, writable) ==
    IF shell = Fish THEN uninstallFish(f, writable) ELSE uninstallRC(f, writable)

\* what the RC file of a shell holds before completion is set up
RCContents(shell) ==
    { << >>,
      ShimContent(shell),
      << "# my zsh config", NL, "export FOO=bar", NL >>,
      << "# no trailing newline" >>,
      << "# before", NL, NL, NL, "# after", NL >>,
      << "# before", NL >> \o ShimContent(shell) \o << "# after", NL >>,
      << "# before", NL, NL >> \o ShimContent(shell) \o << NL, "# after", NL >>,
      << "# before", NL, BeginMarker, NL, "eval something", NL >>,
      << BeginMarker, NL, "eval something", NL >>,
      << "# one", NL, EndMarker, NL, "# three", NL, BeginMarker, NL >>,
      ShimContent(shell) \o << "# between", NL >> \o ShimContent(shell) }

FishContents ==
    { << "# fish completions from homebrew", NL >>, ShimContent(Fish) }

HomeFiles(shell) ==
    { Absent } \cup
      { << c >> : c \in (IF shell = Fish THEN FishContents ELSE RCContents(shell)) }

\* the shell and the home directory the calls are made for
UseHome ==
    /\ compShell = ""
    /\ \E shell \in Shells, homebrew \in BOOLEAN, writable \in BOOLEAN :
         /\ compShell' = shell
         /\ compHomebrew' = homebrew
         /\ compWritable' = writable
         /\ compFile' \in HomeFiles(shell)
    /\ UNCHANGED << compTrace, file, disk, tokenVars, saveVars, chainVars, moreVars, cliVars,
                    matchVars, enrichVars >>

Called(op, before, r) ==
    [op |-> op, before |-> before, after |-> r.file, flag |-> r.flag, err |-> r.err,
     method |-> ""]

\* Status(shell, homeDir): reads, never writes
StatusCall ==
    /\ compShell # ""
    /\ Len(compTrace) < MaxCalls
    /\ LET r == Status(compShell, compFile, compHomebrew) IN
         compTrace' = Append(compTrace,
                        [op |-> "Status", before |-> compFile, after |-> compFile,
                         flag |-> r.Installed, err |-> Empty, method |-> r.Method])
    /\ UNCHANGED << compShell, compHomebrew, compWritable, compFile, file, disk,
                    tokenVars, saveVars, chainVars, moreVars, cliVars, matchVars, enrichVars >>

\* Install(shell, homeDir)
Install ==
    /\ compShell # ""
    /\ Len(compTrace) < MaxCalls
    /\ LET r == InstallFile(compShell, compFile, compHomebrew, compWritable) IN
         /\ compFile' = r.file
         /\ compTrace' = Append(compTrace, Called("Install", compFile, r))
    /\ UNCHANGED << compShell, compHomebrew, compWritable, file, disk, tokenVars,
                    saveVars, chainVars, moreVars, cliVars, matchVars, enrichVars >>

\* Uninstall(shell, homeDir)
Uninstall ==
    /\ compShell # ""
    /\ Len(compTrace) < MaxCalls
    /\ LET r == UninstallFile(compShell, compFile, compWritable) IN
         /\ compFile' = r.file
         /\ compTrace' = Append(compTrace, Called("Uninstall", compFile, r))
    /\ UNCHANGED << compShell, compHomebrew, compWritable, file, disk, tokenVars,
                    saveVars, chainVars, moreVars, cliVars, matchVars, enrichVars >>

NextCompletion == UseHome \/ Install \/ Uninstall \/ StatusCall

InitCompletion ==
    /\ disk = "parsed"
    /\ file = FreshFile
    /\ InitCommand

SpecCompletion == InitCompletion /\ [][NextCompletion]_vars

----------------------------------------------------------------------------
(* The completion install and uninstall commands (cmd/completion) *)

ErrAutoApprove ==
    << "use --auto-approve to skip the confirmation prompt",
       ", or run 'databricks completion status' to preview the detected shell and target file" >>

\* the error AskYesOrNo returns when the prompt cannot be read
ErrPrompt == << "prompt: ", "EOF" >>

Answers == { "yes", "no", "error" }

ConfirmAlways(autoApprove, supported, answer) ==
    [proceed |-> TRUE, err |-> Empty, asked |-> FALSE]

\* "Confirm before writing": the block both commands run before the change
Confirm(autoApprove, supported, answer) ==
    IF autoApprove THEN [proceed |-> TRUE, err |-> Empty, asked |-> FALSE]
    ELSE IF ~supported THEN [proceed |-> FALSE, err |-> ErrAutoApprove, asked |-> FALSE]
    ELSE IF answer = "error" THEN [proceed |-> FALSE, err |-> ErrPrompt, asked |-> TRUE]
    ELSE IF answer = "no" THEN [proceed |-> FALSE, err |-> Empty, asked |-> TRUE]
    ELSE [proceed |-> TRUE, err |-> Empty, asked |-> TRUE]

\* what a run did, in order, and what it left
Ran(f, e, steps) == [file |-> f, err |-> e, steps |-> steps]

Asked(c) == IF c.asked THEN << "status", "prompt" >> ELSE << "status" >>

\* newInstallCmd, RunE
RunInstall(shell, f, homebrew, writable, autoApprove, supported, answer) ==
    LET result == Status(shell, f, homebrew) IN
    IF result.Installed /\ result.Method # "homebrew"
    THEN Ran(f, Empty, << "status" >>)
    ELSE LET c == Confirm(autoApprove, supported, answer) IN
         IF ~c.proceed THEN Ran(f, c.err, Asked(c))
         ELSE LET r == InstallFile(shell, f, homebrew, writable)
              IN Ran(r.file, r.err, Asked(c) \o << "Install" >>)

\* newUninstallCmd, RunE
RunUninstall(shell, f, homebrew, writable, autoApprove, supported, answer) ==
    LET result == Status(shell, f, homebrew) IN
    IF ~result.Installed THEN Ran(f, Empty, << "status" >>)
    ELSE IF result.Method # "" /\ result.Method # "marker"
    THEN Ran(f, Empty, << "status" >>)
    ELSE LET c == Confirm(autoApprove, supported, answer) IN
         IF ~c.proceed THEN Ran(f, c.err, Asked(c))
         ELSE LET r == UninstallFile(shell, f, writable)
              IN Ran(r.file, r.err, Asked(c) \o << "Uninstall" >>)

RunOf(cmd, autoApprove, supported, answer, before, r) ==
    [cmd |-> cmd, autoApprove |-> autoApprove, supported |-> supported,
     answer |-> answer, before |-> before, after |-> r.file, err |-> r.err,
     steps |-> r.steps]

\* databricks completion install [--auto-approve]
InstallCmd ==
    /\ compShell # ""
    /\ \E autoApprove \in BOOLEAN, supported \in BOOLEAN, answer \in Answers :
         LET r == RunInstall(compShell, compFile, compHomebrew, compWritable,
                             autoApprove, supported, answer)
         IN /\ compFile' = r.file
            /\ cmdRun' = << RunOf("install", autoApprove, supported, answer, compFile, r) >>
    /\ UNCHANGED << compShell, compHomebrew, compWritable, compTrace, file, disk,
                    tokenVars, saveVars, chainVars, cliVars, matchVars, enrichVars,
                    appVars, whVars >>

\* databricks completion uninstall [--auto-approve]
UninstallCmd ==
    /\ compShell # ""
    /\ \E autoApprove \in BOOLEAN, supported \in BOOLEAN, answer \in Answers :
         LET r == RunUninstall(compShell, compFile, compHomebrew, compWritable,
                               autoApprove, supported, answer)
         IN /\ compFile' = r.file
            /\ cmdRun' = << RunOf("uninstall", autoApprove, supported, answer, compFile, r) >>
    /\ UNCHANGED << compShell, compHomebrew, compWritable, compTrace, file, disk,
                    tokenVars, saveVars, chainVars, cliVars, matchVars, enrichVars,
                    appVars, whVars >>

NextCompletionCmd == UseHome \/ InstallCmd \/ UninstallCmd

InitCompletionCmd ==
    /\ disk = "parsed"
    /\ file = FreshFile
    /\ InitCommand

SpecCompletionCmd == InitCompletionCmd /\ [][NextCompletionCmd]_vars

----------------------------------------------------------------------------
(* Apps of the direct deployment engine (bundle/direct/dresources/app.go) *)

MaxAttempts == 4

ComputeStateActive == "ACTIVE"
ComputeStateDeleting == "DELETING"
ComputeStateError == "ERROR"
ComputeStateStarting == "STARTING"
ComputeStateStopped == "STOPPED"
ComputeStateStopping == "STOPPING"
ComputeStateUpdating == "UPDATING"

ComputeStates ==
    { ComputeStateActive, ComputeStateDeleting, ComputeStateError, ComputeStateStarting,
      ComputeStateStopped, ComputeStateStopping, ComputeStateUpdating }

ErrResourceAlreadyExists == << "resource already exists" >>
ErrPermissionDenied == << "permission denied" >>
ErrNotFound == << "app not found" >>
ErrInternal == << "internal error" >>
ErrDeadline == << "context deadline exceeded" >>

\* errors.Is(err, apierr.ErrResourceAlreadyExists)
IsAlreadyExists(e) == e = ErrResourceAlreadyExists

\* apierr.IsMissing(getErr)
IsMissing(e) == e = ErrNotFound

\* retries.Halt(err) and retries.Continues(msg): the error the retrier is handed
Halt(e) == [Err |-> e, Halt |-> TRUE]
Continues(msg) == [Err |-> << msg >>, Halt |-> FALSE]

\* WithRetryFunc(shouldRetry): the retrier goes on after the errors Continues makes
shouldRetry(e) == ~e.Halt

\* what Apps.Create answers: the app, or an error
CreateAnswers == { Empty, ErrResourceAlreadyExists, ErrPermissionDenied }

\* what Apps.GetByName answers: a compute state, "nil" for an app without
\* compute status, or an error
Found(state) == [state |-> state, err |-> Empty]
GetFailed(e) == [state |-> "", err |-> e]
GetAnswers ==
    { Found(st) : st \in ComputeStates \cup { "nil" } }
      \cup { GetFailed(ErrNotFound), GetFailed(ErrInternal) }

createOnceAlwaysContinues(name, created, got) ==
    IF created # Empty
    THEN [app |-> Empty, err |-> << Continues("retrying create") >>]
    ELSE [app |-> name, err |-> << >>]

\* the function DoCreate hands to retrier.Run, called once
createOnce(name, created, got) ==
    IF created # Empty THEN
      IF IsAlreadyExists(created) THEN
        IF got.err # Empty THEN
          IF IsMissing(got.err)
          THEN [app |-> Empty, err |-> << Continues("app was deleted, retrying create") >>]
          ELSE [app |-> Empty, err |-> << Halt(created) >>]
        ELSE IF got.state # "nil" /\ got.state = ComputeStateDeleting
        THEN [app |-> Empty, err |-> << Continues("app is deleting, retrying create") >>]
        ELSE [app |-> Empty, err |-> << Halt(created) >>]
      ELSE [app |-> Empty, err |-> << Halt(created) >>]
    ELSE [app |-> name, err |-> << >>]

AppNames == { << "my-app" >>, << "other-app" >> }

\* DoCreate is called for an app the bundle declares
DoCreate ==
    /\ appPc = "idle"
    /\ \E name \in AppNames : appName' = name
    /\ appPc' = "creating"
    /\ UNCHANGED << appTries, appResult, appState, appPolls, appWait, notApp >>

\* one round of retrier.Run in DoCreate: the function is called, and the
\* retrier returns its app, returns its error, or goes on
CreateAttempt ==
    /\ appPc = "creating"
    /\ Len(appTries) < MaxAttempts
    /\ \E created \in CreateAnswers, got \in GetAnswers :
         LET looked == IsAlreadyExists(created)
             r == createOnce(appName, created, got)
             try == [created |-> created,
                     got |-> IF looked THEN << got >> ELSE << >>,
                     err |-> r.err]
         IN /\ ~looked => got = Found(ComputeStateActive)
            /\ appTries' = Append(appTries, try)
            /\ IF r.err = << >>
               THEN /\ appResult' = << [id |-> r.app, err |-> << >>] >>
                    /\ appPc' = "created"
                    /\ appState' \in { ComputeStateStarting, ComputeStateStopped }
               ELSE IF shouldRetry(r.err[1])
               THEN UNCHANGED << appResult, appPc, appState >>
               ELSE /\ appResult' = << [id |-> Empty, err |-> r.err] >>
                    /\ appPc' = "failed"
                    /\ UNCHANGED appState
    /\ UNCHANGED << appName, appPolls, appWait, notApp >>

\* the 15 minutes of the retrier of DoCreate, or the context, run out between
\* two attempts
CreateTimeout ==
    /\ appPc = "creating"
    /\ Len(appTries) > 0
    /\ appResult' = << [id |-> Empty,
                        err |-> << [Err |-> << "timed out: " >> \o appTries[Len(appTries)].err[1].Err,
                                    Halt |-> FALSE] >>] >>
    /\ appPc' = "failed"
    /\ UNCHANGED << appName, appTries, appState, appPolls, appWait, notApp >>

\* WaitAfterCreate
WaitAfterCreate ==
    /\ appPc = "created"
    /\ appPc' = "waiting"
    /\ UNCHANGED << appName, appTries, appResult, appState, appPolls, appWait, notApp >>

\* the compute of the app moves on at the service; ACTIVE, STOPPED and ERROR
\* are where it rests
ServiceStep ==
    /\ appPc \in { "created", "waiting" }
    /\ appState \notin { ComputeStateActive, ComputeStateStopped, ComputeStateError }
    /\ appState' \in ComputeStates \ { appState }
    /\ UNCHANGED << appName, appPc, appTries, appResult, appPolls, appWait, notApp >>

ErrFailedToReach(status, message) ==
    << "failed to reach ", ComputeStateActive, " or ", ComputeStateStopped, ", got ",
       status, ": ", message >>

\* ComputeStatus.Message of the app in a compute state
MessageOf(status) == "compute is " \o status

waitOnceActiveOnly(got) ==
    IF got.err # Empty THEN [app |-> << >>, err |-> << Halt(got.err) >>]
    ELSE IF got.state = ComputeStateActive
    THEN [app |-> << got.state >>, err |-> << >>]
    ELSE IF got.state = ComputeStateError
    THEN [app |-> << >>,
          err |-> << Halt(ErrFailedToReach(got.state, MessageOf(got.state))) >>]
    ELSE [app |-> << >>, err |-> << Continues(MessageOf(got.state)) >>]

\* the function waitForApp hands to retrier.Run, called once
waitOnce(got) ==
    IF got.err # Empty THEN [app |-> << >>, err |-> << Halt(got.err) >>]
    ELSE IF got.state \in { ComputeStateActive, ComputeStateStopped }
    THEN [app |-> << got.state >>, err |-> << >>]
    ELSE IF got.state = ComputeStateError
    THEN [app |-> << >>,
          err |-> << Halt(ErrFailedToReach(got.state, MessageOf(got.state))) >>]
    ELSE [app |-> << >>, err |-> << Continues(MessageOf(got.state)) >>]

\* the last two of the polls and this one
Seen(polls, poll) ==
    IF Len(polls) < 2 THEN Append(polls, poll) ELSE << polls[2], poll >>

\* one round of retrier.Run in waitForApp
Poll ==
    /\ appPc = "waiting"
    /\ \E got \in { Found(appState), GetFailed(ErrNotFound), GetFailed(ErrInternal) } :
         LET r == waitOnce(got) IN
         /\ appPolls' = Seen(appPolls, [got |-> got, err |-> r.err])
         /\ IF r.err = << >>
            THEN appWait' = << [app |-> r.app, err |-> << >>] >> /\ appPc' = "ready"
            ELSE IF shouldRetry(r.err[1])
            THEN UNCHANGED << appWait, appPc >>
            ELSE appWait' = << [app |-> << >>, err |-> r.err] >> /\ appPc' = "waitFailed"
    /\ UNCHANGED << appName, appTries, appResult, appState, notApp >>

\* the context of waitForApp is cancelled between two polls
Cancel ==
    /\ appPc = "waiting"
    /\ Len(appPolls) > 0
    /\ appWait' = << [app |-> << >>,
                      err |-> << [Err |-> << "timed out: " >> \o appPolls[Len(appPolls)].err[1].Err,
                                  Halt |-> FALSE] >>] >>
    /\ appPc' = "cancelled"
    /\ UNCHANGED << appName, appTries, appResult, appState, appPolls, notApp >>

NextApp ==
    \/ DoCreate
    \/ CreateAttempt
    \/ CreateTimeout
    \/ WaitAfterCreate
    \/ ServiceStep
    \/ Poll
    \/ Cancel

InitApp ==
    /\ disk = "parsed"
    /\ file = FreshFile
    /\ InitCommand

SpecApp == InitApp /\ [][NextApp]_vars

\* the retrier of waitForApp calls its function again and again
SpecAppLive == SpecApp /\ WF_vars(Poll)

----------------------------------------------------------------------------
(* The warehouse of the session (aitools middlewares: warehouse.go) *)

MaxGets == 2

\* the goroutines that call GetWarehouseEndpoint
Callers == { 1, 2 }

StateRunning == "RUNNING"
StateStopped == "STOPPED"
StateStopping == "STOPPING"

\* *sql.EndpointInfo
Endpoint(id, state) == [Id |-> id, State |-> state]

ErrGetClient == << "get databricks client: ", "no client" >>
ErrStart == << "start warehouse ", "wh-1", ": ", "failed" >>

\* what getDefaultWarehouse answers
LoadAnswers ==
    { [wh |-> << Endpoint("wh-1", StateRunning) >>, err |-> Empty],
      [wh |-> << Endpoint("wh-1", StateStopped) >>, err |-> Empty],
      [wh |-> << >>, err |-> ErrGetClient] }

\* what startWarehouse answers
StartAnswers(id) ==
    { [wh |-> << Endpoint(id, StateRunning) >>, err |-> Empty],
      [wh |-> << >>, err |-> ErrStart] }

IdleCall == [pc |-> "idle"]

\* go loadWarehouseInBackground(ctx)
BgLaunch ==
    /\ whBg = "none"
    /\ whBg' = "launched"
    /\ UNCHANGED << whSession, whWgDone, whBgGot, whLoads, whCall, whReturns, notWh >>

\* wg.Add(1); sess.Set(warehouseLoadingKey, &wg)
BgSetLoading ==
    /\ whBg = "launched"
    /\ whSession' = [whSession EXCEPT !.loading = TRUE]
    /\ whBg' = "loading"
    /\ UNCHANGED << whWgDone, whBgGot, whLoads, whCall, whReturns, notWh >>

\* warehouse, err := getDefaultWarehouse(ctx)
BgLoad ==
    /\ whBg = "loading"
    /\ \E a \in LoadAnswers : whBgGot' = << a >>
    /\ whLoads' = whLoads \cup { 0 }
    /\ whBg' = "loaded"
    /\ UNCHANGED << whSession, whWgDone, whCall, whReturns, notWh >>

\* sess.Set(warehouseErrorKey, err), or sess.Set("warehouse_endpoint", warehouse)
BgStore ==
    /\ whBg = "loaded"
    /\ whSession' = IF whBgGot[1].err # Empty
                    THEN [whSession EXCEPT !.error = << whBgGot[1].err >>]
                    ELSE [whSession EXCEPT !.endpoint = whBgGot[1].wh]
    /\ whBg' = "stored"
    /\ UNCHANGED << whWgDone, whBgGot, whLoads, whCall, whReturns, notWh >>

\* defer wg.Done()
BgDone ==
    /\ whBg = "stored"
    /\ whWgDone' = TRUE
    /\ whBg' = "finished"
    /\ UNCHANGED << whSession, whBgGot, whLoads, whCall, whReturns, notWh >>

\* the call c goes to pc with some of its fields changed
Goto(c, call) == whCall' = [whCall EXCEPT ![c] = call]

\* the call c returns; bgAtCall, waited and loaded tell how the call went
Return(c, wh, e, from) ==
    /\ whCall' = [whCall EXCEPT ![c] = IdleCall]
    /\ whReturns' = Append(whReturns,
                      [caller |-> c, bgAtCall |-> whCall[c].bgAtCall,
                       waited |-> whCall[c].waited, loaded |-> whCall[c].loaded,
                       wh |-> wh, err |-> e, from |-> from])

\* GetWarehouseEndpoint(ctx, autoStart) is called
GetWarehouseEndpoint(c) ==
    /\ whCall[c].pc = "idle"
    /\ Len(whReturns) + Cardinality({ d \in Callers : whCall[d].pc # "idle" }) < MaxGets
    /\ \E autoStart \in BOOLEAN :
         Goto(c, [pc |-> "getLoading", autoStart |-> autoStart,
                  bgAtCall |-> IF whBg \in { "none", "launched" } THEN whBg ELSE "marked",
                  waited |-> FALSE, loaded |-> FALSE, held |-> << >>])
    /\ UNCHANGED << whSession, whWgDone, whBg, whBgGot, whLoads, whReturns, notWh >>

\* wgRaw, ok := sess.Get(warehouseLoadingKey)
GetLoading(c) ==
    /\ whCall[c].pc = "getLoading"
    /\ Goto(c, [whCall[c] EXCEPT !.pc = IF whSession.loading THEN "wait" ELSE "getEndpoint",
                                 !.waited = whSession.loading])
    /\ UNCHANGED << whSession, whWgDone, whBg, whBgGot, whLoads, whReturns, notWh >>

\* wg.Wait()
Wait(c) ==
    /\ whCall[c].pc = "wait"
    /\ whWgDone
    /\ Goto(c, [whCall[c] EXCEPT !.pc = "deleteLoading"])
    /\ UNCHANGED << whSession, whWgDone, whBg, whBgGot, whLoads, whReturns, notWh >>

\* sess.Delete(warehouseLoadingKey)
DeleteLoading(c) ==
    /\ whCall[c].pc = "deleteLoading"
    /\ whSession' = [whSession EXCEPT !.loading = FALSE]
    /\ Goto(c, [whCall[c] EXCEPT !.pc = "getError"])
    /\ UNCHANGED << whWgDone, whBg, whBgGot, whLoads, whReturns, notWh >>

GetErrorSkipped(c) ==
    /\ whCall[c].pc = "getError"
    /\ Goto(c, [whCall[c] EXCEPT !.pc = "getEndpoint"])
    /\ UNCHANGED << whSession, whWgDone, whBg, whBgGot, whLoads, whReturns, notWh >>

\* errRaw, ok := sess.Get(warehouseErrorKey)
GetError(c) ==
    /\ whCall[c].pc = "getError"
    /\ Goto(c, IF whSession.error # << >>
               THEN [whCall[c] EXCEPT !.pc = "deleteError", !.held = whSession.error]
               ELSE [whCall[c] EXCEPT !.pc = "getEndpoint"])
    /\ UNCHANGED << whSession, whWgDone, whBg, whBgGot, whLoads, whReturns, notWh >>

\* sess.Delete(warehouseErrorKey); return nil, errRaw.(error)
DeleteError(c) ==
    /\ whCall[c].pc = "deleteError"
    /\ whSession' = [whSession EXCEPT !.error = << >>]
    /\ Return(c, << >>, whCall[c].held[1], "warehouse_error")
    /\ UNCHANGED << whWgDone, whBg, whBgGot, whLoads, notWh >>

\* warehouse, ok := sess.Get("warehouse_endpoint")
GetEndpoint(c) ==
    /\ whCall[c].pc = "getEndpoint"
    /\ Goto(c, IF whSession.endpoint # << >>
               THEN [whCall[c] EXCEPT !.pc = "autoStart", !.held = whSession.endpoint]
               ELSE [whCall[c] EXCEPT !.pc = "load"])
    /\ UNCHANGED << whSession, whWgDone, whBg, whBgGot, whLoads, whReturns, notWh >>

\* the fallback: warehouse, err = getDefaultWarehouse(ctx)
Load(c) ==
    /\ whCall[c].pc = "load"
    /\ whLoads' = whLoads \cup { c }
    /\ \E a \in LoadAnswers :
         IF a.err # Empty
         THEN /\ whCall' = [whCall EXCEPT ![c] = IdleCall]
              /\ whReturns' = Append(whReturns,
                                [caller |-> c, bgAtCall |-> whCall[c].bgAtCall,
                                 waited |-> whCall[c].waited, loaded |-> TRUE,
                                 wh |-> << >>, err |-> a.err,
                                 from |-> "getDefaultWarehouse"])
         ELSE /\ Goto(c, [whCall[c] EXCEPT !.pc = "setEndpoint", !.held = a.wh,
                                           !.loaded = TRUE])
              /\ UNCHANGED whReturns
    /\ UNCHANGED << whSession, whWgDone, whBg, whBgGot, notWh >>

\* sess.Set("warehouse_endpoint", warehouse) of the fallback
SetEndpoint(c) ==
    /\ whCall[c].pc = "setEndpoint"
    /\ whSession' = [whSession EXCEPT !.endpoint = whCall[c].held]
    /\ Goto(c, [whCall[c] EXCEPT !.pc = "autoStart"])
    /\ UNCHANGED << whWgDone, whBg, whBgGot, whLoads, whReturns, notWh >>

\* the rest of GetWarehouseEndpoint: start a stopped warehouse if asked, return
AutoStart(c) ==
    /\ whCall[c].pc = "autoStart"
    /\ LET endpoint == whCall[c].held[1] IN
       IF whCall[c].autoStart /\ endpoint.State \in { StateStopped, StateStopping }
       THEN \E a \in StartAnswers(endpoint.Id) :
              IF a.err # Empty
              THEN /\ Return(c, << >>, a.err, "startWarehouse")
                   /\ UNCHANGED whSession
              ELSE /\ whSession' = [whSession EXCEPT !.endpoint = a.wh]
                   /\ Return(c, a.wh, Empty, "startWarehouse")
       ELSE /\ Return(c, << endpoint >>, Empty, "warehouse_endpoint")
            /\ UNCHANGED whSession
    /\ UNCHANGED << whWgDone, whBg, whBgGot, whLoads, notWh >>

NextWarehouse ==
    \/ BgLaunch
    \/ BgSetLoading
    \/ BgLoad
    \/ BgStore
    \/ BgDone
    \/ \E c \in Callers :
         \/ GetWarehouseEndpoint(c)
         \/ GetLoading(c)
         \/ Wait(c)
         \/ DeleteLoading(c)
         \/ GetError(c)
         \/ DeleteError(c)
         \/ GetEndpoint(c)
         \/ Load(c)
         \/ SetEndpoint(c)
         \/ AutoStart(c)

InitWarehouse ==
    /\ disk = "parsed"
    /\ file = FreshFile
    /\ InitCommand

SpecWarehouse == InitWarehouse /\ [][NextWarehouse]_vars

----------------------------------------------------------------------------
(* Properties *)

HasEvent(ev) == \E i \in 1..Len(trace) : trace[i].ev = ev

HasGetenv(name) == \E i \in 1..Len(trace) : trace[i] = Event("Getenv", << name >>)

TokenRequested == HasEvent("Token")

\* the host scan of loadToken (token.go 189) has run
Scanned == \E i \in 1..Len(trace) : trace[i].ev = "LoadProfiles" /\ Head(trace[i].arg) = "match"

\* the enumeration of all profiles (token.go 319) has run
Enumerated == \E i \in 1..Len(trace) : trace[i] = Event("LoadProfiles", << "MatchAllProfiles" >>)

PickerShown == \E i \in 1..Len(trace) : trace[i] = Event("Prompt", << "Select a profile" >>)

MatchPickerShown ==
    \E i \in 1..Len(trace) : trace[i].ev = "Prompt" /\ Head(trace[i].arg) = "Multiple profiles match "

StoredProfileNames == { Profiles(file)[i].Name : i \in 1..Len(Profiles(file)) }

\* the names of the matching profiles, in the order the file stores them
MatchingNamesInStoredOrder ==
    SelectSeq(SectionNames(file),
              LAMBDA n : \E i \in 1..Len(matchingProfiles) : matchingProfiles[i].Name = n)

\* C1: with no profile resolved and a host that more than one stored profile
\* matches, a non-interactive loadToken fails with "<n1> and <n2> match <host>
\* in <path>. Use --profile to specify which profile to use" (names in stored
\* order, host as supplied), adopts no candidate and asks the cache for no token.
C1_AmbiguousHostIsAnError ==
    (Scanned /\ ~promptSupported /\ Len(matchingProfiles) > 1) =>
        /\ pc = "done"
        /\ err = Join(MatchingNamesInStoredOrder, << " and " >>) \o << " match " >>
                   \o authArguments.Host \o << " in " >> \o ConfigPath
                   \o << ". Use --profile to specify which profile to use" >>
        /\ profileName = Empty
        /\ authArguments.Profile = Empty
        /\ ~TokenRequested
        /\ token = Empty

C1_Witness ==
    /\ pc = "done"
    /\ ~promptSupported
    /\ flags.Host = NoScheme(HAccounts)
    /\ Len(matchingProfiles) = 2
    /\ err = << "acct-dup1", " and ", "acct-dup2", " match ", "accounts.", "cloud.databricks.com",
                " in ", "~/.databrickscfg", ". Use --profile to specify which profile to use" >>

\* the section of the file the last save went to
SavedSection == file[lastSave.idx]

\* C2: a save merges: every populated field of the config is written to the
\* resolved section, every other key of the section keeps its value, so an
\* empty field neither overwrites nor removes a key, and after any sequence of
\* saves a key not cleared since holds the last non-empty value written to it.
C2_SaveMerges ==
    /\ [][ (saves' = saves + 1 /\ lastSave'.err = Empty) =>
            LET i == lastSave'.idx
                cfg == lastSave'.cfg
                cleared == lastSave'.clearKeys
                old == IF i <= Len(file) THEN file[i].keys ELSE << >>
            IN /\ \A k \in Populated(cfg) \ cleared :
                    Present(file'[i], k) /\ file'[i].keys[k] = AttrString(cfg, k)
               /\ \A k \in DOMAIN old \ (Populated(cfg) \cup cleared) :
                    Present(file'[i], k) /\ file'[i].keys[k] = old[k]
         ]_vars
    /\ [] ( \A e \in DOMAIN written :
              \E i \in 1..Len(file) :
                 file[i].name = e[1] /\ Present(file[i], e[2]) /\ file[i].keys[e[2]] = written[e] )

C2_Witness ==
    /\ saves = 2
    /\ lastSave.err = Empty
    /\ lastSave.cfg.Profile = Empty
    /\ lastSave.cfg.Token = Empty
    /\ lastSave.cfg.AuthType = authTypeDatabricksCLI
    /\ SavedSection.name = << "abc" >>
    /\ DOMAIN SavedSection.keys = { "host", "auth_type", "token" }
    /\ SavedSection.keys["token"] = << "xyz" >>

\* C3: called with a --profile value and at least one positional argument,
\* loadToken fails with "providing both a profile and host is not supported"
\* whatever the argument is, before it reads the profile store, prompts or
\* asks for a token.
C3_ProfileAndArgumentRejected ==
    (pc # "idle" /\ flags.Profile # Empty /\ Len(flags.Args) > 0) =>
        /\ pc \in { "loadToken", "done" }
        /\ pc = "done" => err = << "providing both a profile and host is not supported" >>
        /\ trace = << >>
        /\ token = Empty

C3_Witness ==
    /\ pc = "done"
    /\ flags.Profile = << "active" >>
    /\ flags.Args = << << "unique-ws" >>, << "extra" >> >>
    /\ err = << "providing both a profile and host is not supported" >>

\* C4: with no --profile and exactly one positional argument A, A is taken as
\* a profile iff a stored profile is named exactly A: then A is the resolved
\* profile and leaves the arguments, dotted or not, and is never the host;
\* otherwise A stays in the arguments and becomes the host.
C4_PositionalProfileOrHost ==
    (flags.Profile = Empty /\ Len(flags.Args) = 1
        /\ pc \notin { "idle", "loadToken", "positional" }) =>
        LET A == flags.Args[1] IN
        IF A \in StoredProfileNames
        THEN profileName = A /\ args = << >> /\ authArguments.Host # A
        ELSE /\ args = << A >>
             /\ pc \in { "existing", "setHostAndAccountId" } => profileName = Empty
             /\ (flags.Host = Empty /\ pc \notin { "existing", "setHostAndAccountId" })
                  => authArguments.Host = A

C4_Witness ==
    /\ pc = "done"
    /\ flags.Profile = Empty
    /\ flags.Args = << << "default.", "dev" >> >>
    /\ profileName = << "default.", "dev" >>
    /\ authArguments.Host = HDev
    /\ token # Empty

\* C5: with no resolved profile and a known host, no matching stored profile
\* leaves the profile name empty and the token is asked for by host key; a
\* single matching profile becomes the resolved profile and its name is the
\* cache key (authArguments.Profile) of the token request.
C5_HostKeyOrUniqueProfile ==
    Scanned =>
        /\ Len(matchingProfiles) = 0 =>
             /\ profileName = Empty
             /\ authArguments.Profile = Empty
             /\ TokenRequested =>
                  LET key == trace[Len(trace)].arg
                      host == CanonicalHostName(authArguments.Host)
                  IN Len(key) >= Len(host) /\ SubSeq(key, 1, Len(host)) = host
        /\ Len(matchingProfiles) = 1 =>
             /\ profileName = matchingProfiles[1].Name
             /\ pc = "token" => authArguments.Profile = profileName
             /\ TokenRequested =>
                  /\ authArguments.Profile = profileName
                  /\ trace[Len(trace)] = Event("Token", profileName)

C5_Witness ==
    /\ pc = "done"
    /\ flags.Host = WithPath(HUnique)
    /\ Len(matchingProfiles) = 1
    /\ authArguments.Profile = << "unique-ws" >>
    /\ trace[Len(trace)] = Event("Token", << "unique-ws" >>)
    /\ token # Empty

\* the class of the host loadToken scans for, taken on the canonical host
AccountClass(a) ==
    \/ a.IsUnifiedHost
    \/ LET c == CanonicalHostName(a.Host) IN Len(c) >= 2 /\ c[2] \in AccountPrefixes

\* C6: the host scan classifies the canonicalized host; for account and
\* unified hosts a profile matches iff canonical host and account ID both
\* agree, for workspace hosts iff the canonical host agrees.
C6_MatchByHostClass ==
    Scanned =>
        matchingProfiles =
            SelectSeq(Profiles(file),
                      LAMBDA p : /\ p.Host # Empty
                                 /\ CanonicalHostName(p.Host) = CanonicalHostName(authArguments.Host)
                                 /\ AccountClass(authArguments) => p.AccountID = authArguments.AccountID)

C6_Witness ==
    /\ Scanned
    /\ flags.Host = NoScheme(HAccounts)
    /\ flags.AccountID = << "same-account" >>
    /\ Names(matchingProfiles) = << << "acct-dup1" >>, << "acct-dup2" >> >>

\* C7: on every resolution path, a resolved profile with client credentials
\* makes loadToken fail with the M2M error, and no token is asked of the cache.
C7_M2MProfileRejected ==
    /\ [][ (pc = "checkM2M" /\ existingProfile # Nil /\ existingProfile[1].HasClientCredentials)
             => (pc' = "done" /\ err' = ErrM2M(profileName) /\ trace' = trace /\ token' = Empty)
         ]_vars
    /\ [] ( (existingProfile # Nil /\ existingProfile[1].HasClientCredentials)
              => (pc # "token" /\ ~TokenRequested /\ token = Empty) )

C7_Witness ==
    /\ pc = "done"
    /\ MatchPickerShown
    /\ profileName = << "dup2" >>
    /\ err = ErrM2M(<< "dup2" >>)

\* C8: when prompting is not supported no prompt is shown, neither the profile
\* picker nor the disambiguation picker; where one would be shown loadToken
\* returns an error.
C8_NoPromptWhenNotSupported ==
    ~promptSupported =>
        /\ ~HasEvent("Prompt")
        /\ selection = "none"
        /\ pc \notin { "promptForProfileSelection", "askForMatchingProfile", "runInlineLogin",
                       "loginHost", "challenge", "saveProfile" }
        /\ Enumerated => pc = "done" /\ err \in { ErrNoProfileSpecified, ErrNoProfilesConfigured }
        /\ (Scanned /\ Len(matchingProfiles) > 1) => pc = "done" /\ err # Empty

C8_Witness ==
    /\ ~promptSupported
    /\ pc = "done"
    /\ Enumerated
    /\ err = ErrNoProfileSpecified

\* C9: the environment fallback runs only with no profile, host or argument;
\* a set DATABRICKS_HOST gives host, account ID, workspace ID and unified flag
\* from the environment and no profile, without reading the profile variable
\* or enumerating or offering the stored profiles; else a set
\* DATABRICKS_CONFIG_PROFILE loads that profile by name; only with neither are
\* the stored profiles enumerated.
C9_EnvironmentOrder ==
    /\ HasGetenv("DATABRICKS_HOST") =>
         flags.Profile = Empty /\ flags.Host = Empty /\ flags.Args = << >>
    /\ (HasGetenv("DATABRICKS_HOST") /\ env.DATABRICKS_HOST # Empty) =>
         /\ pc # "resolveNoArgsToken"
         /\ ~HasGetenv("DATABRICKS_CONFIG_PROFILE")
         /\ ~Enumerated
         /\ ~PickerShown
         /\ authArguments.Host = env.DATABRICKS_HOST
         /\ env.DATABRICKS_ACCOUNT_ID # Empty =>
              authArguments.AccountID = env.DATABRICKS_ACCOUNT_ID
         /\ authArguments.WorkspaceID =
              IF env.DATABRICKS_WORKSPACE_ID # Empty THEN env.DATABRICKS_WORKSPACE_ID
              ELSE flags.WorkspaceID
         /\ authArguments.IsUnifiedHost =
              (env.DATABRICKS_EXPERIMENTAL_IS_UNIFIED_HOST \/ flags.IsUnifiedHost)
         /\ pc = "setHostAndAccountId" =>
              /\ profileName = Empty
              /\ existingProfile = Nil
              /\ env.DATABRICKS_ACCOUNT_ID = Empty => authArguments.AccountID = flags.AccountID
    /\ (HasGetenv("DATABRICKS_CONFIG_PROFILE") /\ env.DATABRICKS_CONFIG_PROFILE # Empty) =>
         /\ env.DATABRICKS_HOST = Empty
         /\ profileName = env.DATABRICKS_CONFIG_PROFILE
         /\ HasEvent("LoadProfiles")
         /\ existingProfile # Nil => existingProfile[1].Name = env.DATABRICKS_CONFIG_PROFILE
         /\ env.DATABRICKS_CONFIG_PROFILE \in StoredProfileNames => existingProfile # Nil
         /\ ~Enumerated
         /\ ~PickerShown
    /\ Enumerated =>
         env.DATABRICKS_HOST = Empty /\ env.DATABRICKS_CONFIG_PROFILE = Empty

C9_Witness ==
    /\ pc = "done"
    /\ HasGetenv("DATABRICKS_HOST")
    /\ env.DATABRICKS_HOST = HUnique
    /\ env.DATABRICKS_CONFIG_PROFILE = << "m2m" >>
    /\ profileName = << "unique-ws" >>
    /\ token # Empty

\* C10: when a profile is loaded, its IsUnifiedHost and WorkspaceID replace
\* only what the caller did not give by flag; a value given by flag, whatever
\* it is, is never replaced by the profile's value.
C10_ExplicitFlagsWin ==
    [][ existingProfile' # Nil =>
          /\ "IsUnifiedHost" \in flags.explicit =>
               authArguments'.IsUnifiedHost = authArguments.IsUnifiedHost
          /\ "WorkspaceID" \in flags.explicit =>
               authArguments'.WorkspaceID = authArguments.WorkspaceID
      ]_vars

\* a sequence begins with another
IsPrefix(p, s) == Len(p) <= Len(s) /\ SubSeq(s, 1, Len(p)) = p

Contains(s, tok) == \E i \in 1..Len(s) : s[i] = tok

LoginWords == << "databricks", " ", "auth", " ", "login", " " >>

SuffixHead == << "Try logging in again with ", Backtick >>

SuffixTail ==
    << Backtick, " before retrying. If this fails, please report this issue to the Databricks CLI maintainers at https://github.com/databricks/cli/issues/new" >>

\* C11: when the token cache has no entry for the target, loadToken fails with
\* exactly "cache: databricks OAuth is not configured for this host" + ". " +
\* the generic remediation suffix, whose login command names --profile <name>
\* when a profile was resolved and --host ... otherwise; the text of the
\* cache's own error does not appear.
C11_NotConfiguredMessage ==
    (pc = "done" /\ fetchErr = ErrCacheNotFound) =>
        /\ token = Empty
        /\ IsPrefix(<< "cache: databricks OAuth is not configured for this host", ". " >>
                        \o SuffixHead, err)
        /\ Len(err) > 6
        /\ SubSeq(err, Len(err) - 1, Len(err)) = SuffixTail
        /\ LET cmd == SubSeq(err, 5, Len(err) - 2) IN
           IF profileName # Empty
           THEN cmd = LoginWords \o << "--profile", " " >> \o profileName
           ELSE /\ IsPrefix(LoginWords \o << "--host", " " >>
                                \o CanonicalHostName(authArguments.Host), cmd)
                /\ ~Contains(cmd, "--profile")
        /\ ~Contains(err, "token not found")
        /\ ~Contains(err, "cache: ")

C11_Witness ==
    /\ pc = "done"
    /\ fetchErr = ErrCacheNotFound
    /\ profileName = Empty
    /\ flags.Args = << << "nonexistent" >> >>
    /\ err = << "cache: databricks OAuth is not configured for this host", ". ",
                "Try logging in again with ", Backtick,
                "databricks", " ", "auth", " ", "login", " ", "--host", " ",
                "https://", "nonexistent" >> \o SuffixTail

\* the host alone says account console (the unified flag is not consulted)
AccountConsoleHost(h) ==
    LET c == CanonicalHostName(h) IN Len(c) >= 2 /\ c[2] \in AccountPrefixes

\* C12: when the fetch fails on an invalid refresh token, loadToken returns
\* the rewritten message ending in the reauthentication command: "databricks
\* auth login --profile <name>" whenever a profile was resolved (also one
\* adopted by a unique host match), else a command built from host and
\* account ID only; the generic remediation suffix is not appended.
C12_InvalidRefreshTokenMessage ==
    (pc = "done" /\ fetchErr = ErrInvalidRefreshToken) =>
        /\ token = Empty
        /\ err # Empty
        /\ Head(err) = "A new access token could not be retrieved because the refresh token is invalid. To reauthenticate, run the following command:\n  $ "
        /\ Tail(err) =
             IF profileName # Empty
             THEN LoginWords \o << "--profile", " " >> \o profileName
             ELSE LoginWords \o << "--host", " " >> \o CanonicalHostName(authArguments.Host)
                    \o ( IF AccountConsoleHost(authArguments.Host)
                         THEN << " ", "--account-id", " " >> \o authArguments.AccountID
                         ELSE << >> )
        /\ ~Contains(err, "Try logging in again with ")
        /\ ~Contains(err, "refresh token is invalid")

\* a profile adopted through the host scan, only host and account ID supplied
C12_Witness ==
    /\ pc = "done"
    /\ fetchErr = ErrInvalidRefreshToken
    /\ flags.Profile = Empty /\ flags.Args = << >>
    /\ flags.Host = HAccounts /\ flags.AccountID = << "active" >>
    /\ Scanned
    /\ profileName = << "active" >>
    /\ Tail(err) = LoginWords \o << "--profile", " ", "active" >>

\* nothing names a target: no flag, no argument, no environment variable
NothingGiven ==
    /\ flags.Profile = Empty /\ flags.Host = Empty /\ flags.Args = << >>
    /\ env.DATABRICKS_HOST = Empty /\ env.DATABRICKS_CONFIG_PROFILE = Empty

\* C13: with no profile, host or positional argument, no host or profile
\* environment variable and prompting unsupported, token resolution fails with
\* "no profile specified. Use --profile <name> to specify which profile to use"
\* iff at least one profile is stored and with "no profiles configured. Run
\* 'databricks auth login' to create a profile" iff none is (a missing file
\* counts as none); it goes no further than the enumeration.
C13_NoProfileErrors ==
    (NothingGiven /\ ~promptSupported
       /\ pc \notin { "idle", "loadToken", "positional", "existing",
                      "resolveNoArgsToken", "envProfile", "allProfiles" }) =>
        /\ pc = "done"
        /\ Enumerated
        /\ token = Empty /\ ~TokenRequested
        /\ err \in { << "no profile specified. Use --profile <name> to specify which profile to use" >>,
                     << "no profiles configured. Run 'databricks auth login' to create a profile" >> }
        /\ (err = << "no profile specified. Use --profile <name> to specify which profile to use" >>)
             <=> (\E i \in 1..Len(file) : Present(file[i], "host"))
        /\ disk = "absent" =>
             err = << "no profiles configured. Run 'databricks auth login' to create a profile" >>

C13_Witness ==
    /\ pc = "done"
    /\ NothingGiven /\ ~promptSupported
    /\ disk = "absent"
    /\ err = << "no profiles configured. Run 'databricks auth login' to create a profile" >>

\* the file a save works on once loadOrCreateConfigFile has run
Loaded == IF disk = "absent" THEN FreshFile ELSE file

\* a save was made in this step, and it succeeded
Saved == saves' = saves + 1 /\ lastSave'.err = Empty

\* a save was made in this step, and it failed
SaveFailed == saves' = saves + 1 /\ lastSave'.err # Empty

\* the sections of the loaded file whose account_id is the given one
WithAccount(a) == { i \in 1..Len(Loaded) : Value(Loaded[i], "account_id") = a }

\* the sections of the loaded file whose host has the canonical form of the given one
WithCanonicalHost(h) ==
    { i \in 1..Len(Loaded) :
        /\ Present(Loaded[i], "host")
        /\ CanonicalHostName(Value(Loaded[i], "host")) = CanonicalHostName(h) }

\* C14: matchOrCreateSection resolves the section by strict precedence: a
\* non-empty cfg.Profile wins, created when absent, whatever cfg.AccountID and
\* cfg.Host match; else the single profile whose account ID is cfg.AccountID;
\* else the single profile whose canonical host is that of cfg.Host.
C14_SectionPrecedence ==
    [][ (saves' = saves + 1 /\ disk \in { "absent", "parsed" }) =>
          LET cfg == lastSave'.cfg
              ok == lastSave'.err = Empty
              idx == lastSave'.idx
              byAccount == IF cfg.AccountID = Empty THEN {} ELSE WithAccount(cfg.AccountID)
              byHost == IF cfg.Host = Empty THEN {} ELSE WithCanonicalHost(cfg.Host)
          IN /\ cfg.Profile # Empty =>
                  /\ ok
                  /\ file'[idx].name = cfg.Profile
                  /\ SectionNames(file') =
                       IF \E i \in 1..Len(Loaded) : Loaded[i].name = cfg.Profile
                       THEN SectionNames(Loaded)
                       ELSE Append(SectionNames(Loaded), cfg.Profile)
             /\ (cfg.Profile = Empty /\ Cardinality(byAccount) = 1) =>
                  /\ ok
                  /\ idx \in byAccount
                  /\ file'[idx].name = Loaded[idx].name
             /\ (cfg.Profile = Empty /\ Cardinality(byAccount) # 1 /\ Cardinality(byHost) = 1) =>
                  /\ ok
                  /\ idx \in byHost
                  /\ file'[idx].name = Loaded[idx].name
             /\ (cfg.Profile = Empty /\ ok) =>
                  \/ Cardinality(byAccount) = 1
                  \/ Cardinality(byHost) = 1
      ]_vars

\* a profile name given together with a host that names another stored profile
C14_Witness ==
    /\ saves = 1
    /\ lastSave.err = Empty
    /\ lastSave.cfg.Profile = << "abc" >>
    /\ lastSave.cfg.Host = WithPath(HQuery)
    /\ lastSave.cfg.AccountID = << "abc" >>
    /\ SectionNames(file) = << DEFAULT, << "query" >>, << "acc" >>, << "foo1" >>, << "foo2" >>, << "abc" >> >>
    /\ SavedSection.name = << "abc" >>
    /\ Value(file[2], "host") = HQuery

C17_OneSectionPerName ==
    [][ (saves' = saves + 1 /\ disk' = "parsed") =>
          LET cfg == lastSave'.cfg IN
          /\ \A i, j \in 1..Len(file') : file'[i].name = file'[j].name => i = j
          /\ \E i \in 1..Len(file') : file'[i].name = << "DEFAULT" >>
          /\ (lastSave'.err = Empty /\ \E i \in 1..Len(Loaded) : Loaded[i].name = cfg.Profile) =>
               /\ SectionNames(file') = SectionNames(Loaded)
               /\ file'[lastSave'.idx].name = cfg.Profile
          /\ (lastSave'.err = Empty /\ cfg.Profile = << "DEFAULT" >>) =>
               /\ SectionNames(file') = SectionNames(Loaded)
               /\ file'[lastSave'.idx].name = << "DEFAULT" >>
               /\ \A i \in 1..Len(Loaded) : i # lastSave'.idx => file'[i] = Loaded[i]
      ]_vars

\* a new file written through the name DEFAULT, then written again
C17_Witness ==
    /\ saves = 2
    /\ lastSave.err = Empty
    /\ lastSave.cfg.Profile = << "DEFAULT" >>
    /\ SectionNames(file) = << << "DEFAULT" >> >>
    /\ Value(file[1], "host") = HFoo
    /\ Value(file[1], "token") = << "xyz" >>

\* C18: a save that fails leaves the profile file as it was: no file comes
\* into existence when it cannot be created, a malformed file is not
\* rewritten, and nothing is persisted when the section cannot be resolved.
C18_FailedSaveLeavesFile ==
    [][ SaveFailed => (file' = file /\ disk' = disk) ]_vars

\* the chain has answered
ChainDone == chainResult # << >>

\* C19: the credential chain is exactly pat, basic, oauth-m2m, databricks-cli,
\* metadata-service, github-oidc, azure-devops-oidc, env-oidc, file-oidc,
\* github-oidc-azure, azure-msi, azure-client-secret, azure-cli,
\* google-credentials, google-id; strategies are tried in that order, so a
\* config with both a static token and a stored OAuth login resolves to pat,
\* never to databricks-cli.
C19_ChainOrder ==
    /\ credentialChain =
         << "pat", "basic", "oauth-m2m", "databricks-cli", "metadata-service",
            "github-oidc", "azure-devops-oidc", "env-oidc", "file-oidc",
            "github-oidc-azure", "azure-msi", "azure-client-secret", "azure-cli",
            "google-credentials", "google-id" >>
    /\ IsPrefix(chainTried, << "pat", "basic", "oauth-m2m", "databricks-cli",
                               "metadata-service", "github-oidc", "azure-devops-oidc",
                               "env-oidc", "file-oidc", "github-oidc-azure", "azure-msi",
                               "azure-client-secret", "azure-cli", "google-credentials",
                               "google-id" >>)
    /\ (ChainDone /\ chainCfg.Token # Empty /\ chainCfg.Host # Empty) =>
         /\ chainResult[1] = [name |-> "pat", err |-> Empty]
         /\ DefaultName = "pat"
         /\ ~Contains(chainTried, "databricks-cli")
    /\ (ChainDone /\ chainCfg.Token # Empty) =>
         ~(chainResult[1].name = "databricks-cli" /\ chainResult[1].err = Empty)

\* a static token and a stored OAuth login for the same host
C19_Witness ==
    /\ ChainDone
    /\ chainCfg.Token = << "xyz" >>
    /\ chainCfg.Host = HUnique
    /\ chainCfg.Profile = << "unique-ws" >>
    /\ chainEnv["databricks-cli"] = "provider"
    /\ chainResult[1].name = "pat"
    /\ chainTried = << "pat" >>

\* the first strategy, in chain order, whose Configure has something to answer
FirstApplicable ==
    { i \in 1..Len(credentialChain) :
        /\ StrategyConfigure(credentialChain[i], chainCfg, chainEnv).kind # "none"
        /\ \A j \in 1..(i - 1) :
             StrategyConfigure(credentialChain[j], chainCfg, chainEnv).kind = "none" }

\* C20: the first strategy in chain order whose precondition is applicable
\* decides the outcome: when its Configure returns an error the chain returns
\* that error, and no later strategy is tried.
C20_FirstApplicableDecides ==
    ChainDone =>
        \A i \in FirstApplicable :
            LET o == StrategyConfigure(credentialChain[i], chainCfg, chainEnv) IN
            /\ chainResult[1].name = credentialChain[i]
            /\ chainResult[1].err = o.err
            /\ o.kind = "error" => chainResult[1].err # Empty
            /\ chainTried = SubSeq(credentialChain, 1, i)

\* client credentials that fail while a stored OAuth login exists
C20_Witness ==
    /\ ChainDone
    /\ chainCfg.Token = Empty
    /\ chainCfg.ClientID # Empty /\ chainCfg.ClientSecret # Empty /\ chainCfg.Host = HUnique
    /\ chainEnv["oauth-m2m"] = "error"
    /\ chainEnv["databricks-cli"] = "provider"
    /\ chainResult[1] = [name |-> "oauth-m2m", err |-> << "oauth-m2m", ": cannot configure" >>]
    /\ chainTried = << "pat", "basic", "oauth-m2m" >>

----------------------------------------------------------------------------
\* C21: Configure of the databricks-cli strategy, given an empty Host, returns
\* "no host provided" and no provider without asking for the persistent auth;
\* given a host and an error from persistentAuth, returns that very error and
\* no provider; otherwise returns a provider and no error, and a request
\* signed while the cached token is valid carries the Authorization header
\* "Bearer " followed by the token source's current access token.
C21_CLIConfigure ==
    cliResult # << >> =>
      LET r == cliResult[1] IN
      /\ cliCfg.Host = Empty =>
            r.err = << "no host provided" >> /\ ~r.provider /\ cliCalls = 0
      /\ (cliCfg.Host # Empty /\ cliAuthFn.err # Empty) =>
            r.err = cliAuthFn.err /\ ~r.provider
      /\ (cliCfg.Host # Empty /\ cliAuthFn.err = Empty) =>
            /\ r.provider /\ r.err = Empty
            /\ cliCached # << >> =>
                  cliHeader = << "Bearer ", "token-", ToString(cliGeneration) >>
      /\ ~r.provider => cliHeader = << >>

\* a request was signed after the token source renewed its token; Configure
\* had been given an account host
C21_Witness ==
    /\ cliResult # << >> /\ cliResult[1].provider
    /\ cliCfg.Host = HAccounts
    /\ cliGeneration = 1
    /\ cliHeader = << "Bearer ", "token-", "1" >>

----------------------------------------------------------------------------
\* C22: canonicalizeHost returns the same value, the scheme and authority,
\* for every way one host is written (with or without scheme, with a trailing
\* slash, with a path and a query), and applied to its own result it returns
\* that result.
C22_CanonicalHost ==
    [][ /\ matchCall'.fn = "canonicalizeHost" =>
              \A b \in BaseHosts :
                  matchCall'.host \in Variants(b) => matchCanon' = b
        /\ (matchCall.fn = "canonicalizeHost" /\ matchCall'.fn = "canonicalizeHost"
                /\ matchCall'.host = matchCanon) =>
              matchCanon' = matchCanon ]_vars

\* a host written with a path and a query was canonicalized
C22_Witness ==
    /\ matchCall.fn = "canonicalizeHost"
    /\ matchCall.host = HMyWorkspace \o << "/", "p", "?", "q=1" >>
    /\ matchCanon = HMyWorkspace

----------------------------------------------------------------------------
\* two hosts are the same host written in two ways
SameHost(h1, h2) ==
    \E b \in BaseHosts : h1 \in Variants(b) /\ h2 \in Variants(b)

\* C23: WithHost(h)(p) is true exactly when p.Host is not empty and is the
\* host h up to the way it is written, so never for a profile without host;
\* WithHostAndAccountID(h, a)(p) is true exactly when that holds and
\* p.AccountID equals a.
C23_HostMatchers ==
    LET p == matchCall.profile
        h == matchCall.host
    IN /\ matchCall.fn = "WithHost" =>
            /\ matchResult <=> (p.Host # Empty /\ SameHost(p.Host, h))
            /\ p.Host = Empty => ~matchResult
       /\ matchCall.fn = "WithHostAndAccountID" =>
            /\ matchResult <=>
                  (p.Host # Empty /\ SameHost(p.Host, h)
                     /\ p.AccountID = matchCall.accountID)
            /\ p.Host = Empty => ~matchResult

\* a profile of the accounts host matched a scheme-less host with a path by
\* host and account ID
C23_Witness ==
    /\ matchCall.fn = "WithHostAndAccountID"
    /\ matchCall.host = << "accounts.", "cloud.databricks.com", "/", "p", "?", "q=1" >>
    /\ matchCall.accountID = << "abc123" >>
    /\ matchCall.profile.Host = HAccounts
    /\ matchResult

----------------------------------------------------------------------------
\* C24: MatchProfileNames(names...)(p) is true exactly when p.Name is one of
\* the names and is not empty: a profile with an empty name is never matched,
\* also when the empty string is among the names, and with no names nothing
\* is matched.
C24_MatchProfileNames ==
    matchCall.fn = "MatchProfileNames" =>
      LET p == matchCall.profile
          names == matchCall.names
      IN /\ matchResult <=>
              (p.Name # Empty /\ \E i \in 1..Len(names) : names[i] = p.Name)
         /\ names = << >> => ~matchResult

----------------------------------------------------------------------------
\* C25: MatchWorkspaceProfiles(p) is true exactly for a profile that is not
\* a unified host and has no account ID, or is a unified host with a
\* workspace ID; MatchAccountProfiles(p) exactly for a profile that is not a
\* unified host and has a host and an account ID, or is a unified host with
\* an account ID and no workspace ID; MatchAllProfiles(p) for every profile.
C25_ProfileClassification ==
    LET p == matchCall.profile
        hasHost == Len(p.Host) > 0
        hasAccount == Len(p.AccountID) > 0
        hasWorkspace == Len(p.WorkspaceID) > 0
    IN /\ matchCall.fn = "MatchWorkspaceProfiles" =>
            (matchResult <=>
               IF p.IsUnifiedHost THEN hasWorkspace ELSE ~hasAccount)
       /\ matchCall.fn = "MatchAccountProfiles" =>
            (matchResult <=>
               IF p.IsUnifiedHost THEN hasAccount /\ ~hasWorkspace
               ELSE hasHost /\ hasAccount)
       /\ matchCall.fn = "MatchAllProfiles" => matchResult

\* a profile with an account ID and no host was classified: it is not an
\* account profile
C25_Witness ==
    /\ matchCall.fn = "MatchAccountProfiles"
    /\ matchCall.profile.Host = Empty
    /\ matchCall.profile.AccountID # Empty
    /\ ~matchCall.profile.IsUnifiedHost
    /\ ~matchResult

----------------------------------------------------------------------------
\* the call made on an error that is, or wraps, an API error of status 401 or 403
AuthFailure ==
    /\ enrichCall # << >>
    /\ As(enrichCall[1].err) # << >>
    /\ As(enrichCall[1].err)[1].StatusCode \in { 401, 403 }

\* C26: EnrichAuthError returns the error it was given, unchanged, unless the
\* error is or wraps an API error of status 401 or 403; in that case what it
\* returns wraps the given error, the API error with its status and error
\* code can still be extracted from it, and its text is the given error's
\* text, a newline, and the appended blocks.
C26_OriginalErrorKept ==
    enrichCall # << >> =>
      LET e == enrichCall[1].err
          out == enrichOut[1]
      IN IF AuthFailure
         THEN /\ out.unwrap = << e >>
              /\ As(out) = As(e)
              /\ IsPrefix(e.text \o << "\n" >>, out.text)
              /\ Contains(SubSeq(out.text, Len(e.text) + 2, Len(out.text)),
                          "\n\nNext steps:")
         ELSE out = e

\* an error wrapping a 403 API error was enriched
C26_Witness ==
    /\ AuthFailure
    /\ enrichCall[1].err.unwrap # << >>
    /\ As(enrichCall[1].err)[1].StatusCode = 403
    /\ As(enrichOut[1]) = << [StatusCode |-> 403, ErrorCode |-> "TEST_ERROR"] >>
    /\ enrichOut[1].text # enrichCall[1].err.text

\* position of a token in a text that holds it
IndexOf(text, tok) == CHOOSE i \in 1..Len(text) : text[i] = tok

\* the first line under "Next steps:" of an enriched text
FirstStep(text) ==
    SubSeq(text, IndexOf(text, "\n\nNext steps:") + 1,
           IndexOf(text, "\n  - Check your identity: ") - 1)

\* C27: the first "Next steps" line of an enriched error is, for status 403,
\* the permission hint whatever the auth type, with no re-authentication line
\* in the text; for status 401 it is the line of the auth type
\* (databricks-cli: the login command; pat: regenerate the token; basic:
\* check the credentials; azure-cli: az login; oauth-m2m: check client ID
\* and secret; any other or no type: the generic check), in its --profile
\* form when a profile is set.
C27_FirstNextStep ==
    AuthFailure =>
      LET cfg == enrichCall[1].cfg
          status == As(enrichCall[1].err)[1].StatusCode
          text == enrichOut[1].text
          first == FirstStep(text)
          type == ToLower(cfg.AuthType)
          withProfile == cfg.Profile # Empty
      IN IF status = 403
         THEN /\ first = << "\n  - Verify you have the required permissions for this operation" >>
              /\ ~Contains(text, "\n  - Re-authenticate: ")
              /\ ~Contains(text, "\n  - Re-authenticate with Azure: az login")
         ELSE CASE type = << "databricks-cli" >> ->
                     /\ Head(first) = "\n  - Re-authenticate: "
                     /\ withProfile =>
                           Tail(first) = << "databricks auth login --profile " >> \o cfg.Profile
                     /\ ~withProfile =>
                           /\ Len(first) >= 6
                           /\ SubSeq(first, 2, 6) = << "databricks", " ", "auth", " ", "login" >>
                           /\ ~Contains(first, "--profile")
                [] type = << "pat" >> ->
                     first = IF withProfile
                             THEN << "\n  - Regenerate your access token or run: databricks configure --profile " >>
                                    \o cfg.Profile
                             ELSE << "\n  - Regenerate your access token" >>
                [] type = << "basic" >> ->
                     first = IF withProfile
                             THEN << "\n  - Check your username/password or run: databricks configure --profile " >>
                                    \o cfg.Profile
                             ELSE << "\n  - Check your username and password" >>
                [] type = << "azure-cli" >> ->
                     first = << "\n  - Re-authenticate with Azure: az login" >>
                [] type = << "oauth-m2m" >> ->
                     first = << "\n  - Check your service principal client ID and secret" >>
                [] OTHER ->
                     first = << "\n  - Check your authentication credentials" >>

\* a 403 for a databricks-cli config with a profile was enriched
C27_Witness ==
    /\ AuthFailure
    /\ As(enrichCall[1].err)[1].StatusCode = 403
    /\ enrichCall[1].cfg.AuthType = << "databricks-cli" >>
    /\ enrichCall[1].cfg.Profile = << "dev" >>
    /\ FirstStep(enrichOut[1].text)
         = << "\n  - Verify you have the required permissions for this operation" >>

----------------------------------------------------------------------------
\* strings.Count(content, BeginMarker), 0 for an absent file
Markers(f) ==
    IF f = Absent THEN 0
    ELSE Cardinality({ i \in 1..Len(f[1]) : f[1][i] = BeginMarker })

\* the k-th call is an Install that directly follows a successful Install
FollowsInstall(k) ==
    /\ k > 1
    /\ compTrace[k].op = "Install"
    /\ compTrace[k - 1].op = "Install"
    /\ compTrace[k - 1].err = Empty

\* a fish completion file that somebody else put there
Foreign(f) == compShell = Fish /\ f # Absent /\ ~HasMarker(f)

\* C28 as stated: after every successful Install the target file holds
\* exactly one marker block, and every Install that follows a successful
\* Install answers alreadyInstalled = true and leaves the file as it was.
C28_InstallIdempotent ==
    \A k \in 1..Len(compTrace) :
        LET c == compTrace[k] IN
        /\ (c.op = "Install" /\ c.err = Empty) => Markers(c.after) = 1
        /\ FollowsInstall(k) => (c.flag /\ c.err = Empty /\ c.after = c.before)

\* C28 amended: after every successful Install on a target file that held at
\* most one marker block and is not a fish file put there by somebody else,
\* the file holds exactly one marker block; such a fish file is left as it
\* is; and every Install that follows a successful Install answers
\* alreadyInstalled = true and leaves the file as it was.
C28_InstallIdempotentAmended ==
    \A k \in 1..Len(compTrace) :
        LET c == compTrace[k] IN
        /\ (c.op = "Install" /\ c.err = Empty) =>
              IF Foreign(c.before) THEN c.after = c.before /\ c.flag
              ELSE Markers(c.before) <= 1 => Markers(c.after) = 1
        /\ FollowsInstall(k) => (c.flag /\ c.err = Empty /\ c.after = c.before)

\* three Install calls in a row for zsh in a home without .zshrc
C28_Witness ==
    /\ compShell = Zsh
    /\ Len(compTrace) = 3
    /\ \A k \in 1..3 : compTrace[k].op = "Install" /\ compTrace[k].err = Empty
    /\ compTrace[1].before = Absent
    /\ ~compTrace[1].flag /\ compTrace[2].flag /\ compTrace[3].flag
    /\ Markers(compFile) = 1

\* C29: when an RC file that holds no marker is given a successful Install
\* directly followed by a successful Uninstall, it holds exactly what it held
\* before the Install.
C29_InstallUninstallRoundTrip ==
    \A k \in 1..(Len(compTrace) - 1) :
        LET i == compTrace[k]
            u == compTrace[k + 1]
        IN ( /\ compShell # Fish
             /\ i.op = "Install" /\ i.err = Empty
             /\ u.op = "Uninstall" /\ u.err = Empty
             /\ i.before # Absent /\ ~HasMarker(i.before) )
           => u.after = i.before

\* C30: a fish completion file without the marker is left as it is by every
\* call: Install answers alreadyInstalled = true, Uninstall answers
\* wasInstalled = false, neither fails; and whatever the shell, Uninstall
\* removes a file only if the file held the marker.
C30_ForeignFishFileKept ==
    \A k \in 1..Len(compTrace) :
        LET c == compTrace[k] IN
        /\ Foreign(c.before) =>
              /\ c.after = c.before
              /\ c.err = Empty
              /\ c.op = "Install" => c.flag
              /\ c.op = "Uninstall" => ~c.flag
        /\ (c.op = "Uninstall" /\ c.before # Absent /\ c.after = Absent) =>
              HasMarker(c.before)

\* Install then Uninstall were called on a fish file from a package manager,
\* which is still there
C30_Witness ==
    /\ compShell = Fish
    /\ Len(compTrace) >= 2
    /\ compTrace[1].op = "Install" /\ compTrace[1].flag
    /\ compTrace[2].op = "Uninstall" /\ ~compTrace[2].flag
    /\ compFile = << << "# fish completions from homebrew", NL >> >>

----------------------------------------------------------------------------
\* the RC file holds a begin marker and no end marker after the first one
MissingEnd(f) ==
    /\ HasMarker(f)
    /\ LET text == f[1]
           b == CHOOSE i \in 1..Len(text) :
                  text[i] = BeginMarker /\ \A j \in 1..(i - 1) : text[j] # BeginMarker
       IN \A i \in b..Len(text) : text[i] # EndMarker

\* the 1-based number of the line a token of the file is on
LineOf(text, i) == 1 + Cardinality({ j \in 1..(i - 1) : text[j] = NL })

\* C31: Uninstall on an RC file that holds the begin marker and no end marker
\* after it fails with the corrupted-block error that names the 1-based line
\* of the first begin marker, answers wasInstalled = false and leaves the
\* file as it was.
C31_CorruptedBlock ==
    \A k \in 1..Len(compTrace) :
        LET c == compTrace[k] IN
        (c.op = "Uninstall" /\ compShell # Fish /\ MissingEnd(c.before)) =>
            /\ \E i \in 1..Len(c.before[1]) :
                  /\ c.before[1][i] = BeginMarker
                  /\ \A j \in 1..(i - 1) : c.before[1][j] # BeginMarker
                  /\ c.err = << "found corrupted completion block: ",
                                "missing end marker",
                                ". Please remove the block starting at line ",
                                ToString(LineOf(c.before[1], i)), " manually" >>
            /\ ~c.flag
            /\ c.after = c.before

\* Uninstall for zsh on "# before", the begin marker, "eval something": the
\* error names line 2
C31_Witness ==
    /\ compShell = Zsh
    /\ Len(compTrace) >= 1
    /\ compTrace[1].op = "Uninstall"
    /\ compTrace[1].before = << << "# before", NL, BeginMarker, NL, "eval something", NL >> >>
    /\ compTrace[1].err[4] = "2"
    /\ compFile = compTrace[1].before

----------------------------------------------------------------------------
\* C32: Status on a readable target file answers method "marker" exactly when
\* the file holds the begin marker, whatever else is installed; "file"
\* exactly for fish with an existing file without the marker; "homebrew"
\* exactly for zsh without the marker and with a Homebrew completion file;
\* and otherwise not installed with an empty method.  It is installed exactly
\* when the method is not empty, and it never changes the file.
C32_StatusMethod ==
    \A k \in 1..Len(compTrace) :
        LET c == compTrace[k] IN
        c.op = "Status" =>
            /\ (c.method = "marker") <=> HasMarker(c.before)
            /\ (c.method = "file") <=>
                  (compShell = Fish /\ c.before # Absent /\ ~HasMarker(c.before))
            /\ (c.method = "homebrew") <=>
                  (compShell = Zsh /\ ~HasMarker(c.before) /\ compHomebrew)
            /\ c.method \in { "marker", "file", "homebrew", "" }
            /\ c.flag <=> (c.method # "")
            /\ c.after = c.before /\ c.err = Empty

\* Status for zsh with both the marker block in .zshrc and the Homebrew
\* completion file answers "marker"
C32_Witness ==
    /\ compShell = Zsh
    /\ compHomebrew
    /\ Len(compTrace) >= 1
    /\ compTrace[1].op = "Status"
    /\ compTrace[1].before = << ShimContent(Zsh) >>
    /\ compTrace[1].method = "marker"

----------------------------------------------------------------------------
\* the run got as far as the confirmation
ReachedConfirm(r) == Len(r.steps) > 1 \/ r.err = ErrAutoApprove

\* the run called Install or Uninstall of the library
Changed(r) == r.steps[Len(r.steps)] \in { "Install", "Uninstall" }

----------------------------------------------------------------------------
\* the error is the one uninstallRC makes for a block without end marker
IsCorrupted(e) == Len(e) >= 2 /\ e[1] = "found corrupted completion block: "

\* the Uninstall call took our block, or our fish file, away
Removed(u) == u.flag /\ u.err = Empty /\ Markers(u.after) < Markers(u.before)

\* Status is directly followed by Uninstall, on the file Status saw
StatusThenUninstall(k) ==
    /\ k < Len(compTrace)
    /\ compTrace[k].op = "Status"
    /\ compTrace[k + 1].op = "Uninstall"

\* a successful Install is directly followed by Status: it reports installed
InstallThenStatus ==
    \A k \in 1..(Len(compTrace) - 1) :
        ( /\ compTrace[k].op = "Install" /\ compTrace[k].err = Empty
          /\ compTrace[k + 1].op = "Status" )
        => compTrace[k + 1].flag

----------------------------------------------------------------------------
\* the create failed with resource-already-exists and the app was gone at the
\* lookup, or was found in compute state DELETING
Retryable(t) ==
    /\ t.created = ErrResourceAlreadyExists
    /\ t.got \in { << GetFailed(ErrNotFound) >>, << Found(ComputeStateDeleting) >> }

\* C35: DoCreate calls create again only after an attempt whose create failed
\* with resource-already-exists and whose lookup reported the app missing or
\* in compute state DELETING; after an attempt with any other create error, a
\* lookup error other than missing, or an existing app that is not being
\* deleted, it has returned the create error of that attempt; and it returns
\* the name of the app only when the last create call succeeded.
C35_CreateRetries ==
    /\ \A k \in 1..(Len(appTries) - 1) : Retryable(appTries[k])
    /\ Len(appTries) > 0 =>
         LET t == appTries[Len(appTries)] IN
         IF t.created = Empty
         THEN /\ appPc \notin { "creating", "failed" }
              /\ appResult = << [id |-> appName, err |-> << >>] >>
         ELSE IF Retryable(t)
         THEN \/ appPc = "creating" /\ appResult = << >>
              \/ /\ appPc = "failed"
                 /\ appResult[1].id = Empty
                 /\ appResult[1].err[1].Err[1] = "timed out: "
         ELSE /\ appPc = "failed"
              /\ appResult[1].id = Empty
              /\ appResult[1].err[1].Halt
              /\ appResult[1].err[1].Err = t.created
    /\ (appResult # << >> /\ appResult[1].id # Empty) =>
         (Len(appTries) > 0 /\ appTries[Len(appTries)].created = Empty)

\* the app is being deleted at the first create, gone at the second, and the
\* third create succeeds
C35_Witness ==
    /\ Len(appTries) = 3
    /\ appTries[1].got = << Found(ComputeStateDeleting) >>
    /\ appTries[2].got = << GetFailed(ErrNotFound) >>
    /\ appTries[3].created = Empty
    /\ appPc = "created"
    /\ appResult = << [id |-> << "my-app" >>, err |-> << >>] >>

----------------------------------------------------------------------------
\* the compute states waitForApp returns on
Resting == { ComputeStateActive, ComputeStateStopped, ComputeStateError }

\* what the last poll of waitForApp saw decides where waitForApp is
WaitFollowsLastPoll ==
    appPolls # << >> =>
        LET got == appPolls[Len(appPolls)].got IN
        IF got.err # Empty
        THEN /\ appPc = "waitFailed"
             /\ appWait = << [app |-> << >>, err |-> << Halt(got.err) >>] >>
        ELSE IF got.state \in { ComputeStateActive, ComputeStateStopped }
        THEN /\ appPc = "ready"
             /\ appWait = << [app |-> << got.state >>, err |-> << >>] >>
        ELSE IF got.state = ComputeStateError
        THEN /\ appPc = "waitFailed"
             /\ appWait[1].app = << >>
             /\ appWait[1].err[1].Halt
             /\ appWait[1].err[1].Err[6] = ComputeStateError
        ELSE \/ appPc = "waiting" /\ appWait = << >>
             \/ appPc = "cancelled" /\ appWait[1].err[1].Err[1] = "timed out: "

\* waitForApp has returned only after a poll, and every poll but the last saw
\* a compute state other than ACTIVE, STOPPED and ERROR
WaitEndsOnlyWithCause ==
    /\ appPc \in { "ready", "waitFailed", "cancelled" } => appPolls # << >>
    /\ \A k \in 1..(Len(appPolls) - 1) :
          /\ appPolls[k].got.err = Empty
          /\ appPolls[k].got.state \notin Resting

\* C36: waitForApp returns the app when a poll sees compute state ACTIVE or
\* STOPPED, fails at once when a poll sees ERROR or the lookup fails, and
\* polls again after every other state; it returns only for one of these
\* causes or because its context was cancelled; and once the app rests in
\* ACTIVE, STOPPED or ERROR, waitForApp returns.
C36_WaitForApp ==
    /\ [](WaitFollowsLastPoll /\ WaitEndsOnlyWithCause)
    /\ (appPc = "waiting" /\ appState \in Resting) ~> (appPc # "waiting")

\* waitForApp saw STARTING, polled again, saw STOPPED and returned the app
C36_Witness ==
    /\ appPc = "ready"
    /\ Len(appPolls) = 2
    /\ appPolls[1].got = Found(ComputeStateStarting)
    /\ appPolls[2].got = Found(ComputeStateStopped)
    /\ appWait = << [app |-> << ComputeStateStopped >>, err |-> << >>] >>

----------------------------------------------------------------------------
\* the background load failed, and its error is what the call returned
GotRecordedError(r) ==
    /\ whBgGot # << >> /\ whBgGot[1].err # Empty
    /\ r.from = "warehouse_error" /\ r.err = whBgGot[1].err /\ r.wh = << >>

\* the background load succeeded, and the call returned the warehouse it
\* found stored, which is the one that load resolved, or failed to start it
GotLoadedWarehouse(r) ==
    /\ whBgGot # << >> /\ whBgGot[1].err = Empty
    /\ r.from \in { "warehouse_endpoint", "startWarehouse" }
    /\ r.wh # << >> => r.wh[1].Id = whBgGot[1].wh[1].Id

\* an earlier call returned the error the background load recorded
TakenBefore(k) == \E j \in 1..(k - 1) : whReturns[j].from = "warehouse_error"

OtherWaited(k) ==
    \/ \E j \in 1..Len(whReturns) : j # k /\ whReturns[j].waited
    \/ \E c \in Callers :
          /\ whCall[c].pc \notin { "idle", "getLoading", "wait", "deleteLoading" }
          /\ whCall[c].waited

C38_ErrorReturnedOnce ==
    /\ Cardinality({ k \in 1..Len(whReturns) : whReturns[k].from = "warehouse_error" }) <= 1
    /\ \A k \in 1..Len(whReturns) :
         (TakenBefore(k) /\ whReturns[k].from # "warehouse_error") =>
            (whReturns[k].loaded \/ whLoads \cap Callers # {})

\* the environment fallback returned with the host of DATABRICKS_HOST
EnvHostTaken == HasGetenv("DATABRICKS_HOST") /\ env.DATABRICKS_HOST # Empty

\* the stored profiles that match the host taken from the environment
EnvHostMatches ==
    SelectSeq(Profiles(file),
              LAMBDA p : /\ p.Host # Empty
                         /\ CanonicalHostName(p.Host) = CanonicalHostName(env.DATABRICKS_HOST)
                         /\ AccountClass(authArguments) => p.AccountID = authArguments.AccountID)

\* C39: a host taken from DATABRICKS_HOST does not bypass the host scan: the
\* environment fallback returns the host and no profile, loadToken then scans
\* the stored profiles for that host before the M2M check and before any token
\* request; a single match becomes the resolved profile, the cache key of the
\* token request and the profile the M2M check refuses, and several matches
\* end in the ambiguity error without a prompt or in the match picker with one.
C39_EnvHostIsMatched ==
    EnvHostTaken =>
        /\ pc = "setHostAndAccountId" => profileName = Empty /\ existingProfile = Nil
        /\ (pc \in { "checkM2M", "token", "askForMatchingProfile" } \/ TokenRequested) => Scanned
        /\ (pc = "done" /\ err = Empty) => Scanned
        /\ Scanned =>
             /\ matchingProfiles = EnvHostMatches
             /\ Len(matchingProfiles) = 1 =>
                  /\ profileName = matchingProfiles[1].Name
                  /\ existingProfile # Nil
                  /\ TokenRequested =>
                       /\ authArguments.Profile = profileName
                       /\ trace[Len(trace)] = Event("Token", profileName)
                  /\ matchingProfiles[1].HasClientCredentials =>
                       /\ ~TokenRequested
                       /\ pc = "done" => err = ErrM2M(profileName)
             /\ Len(matchingProfiles) > 1 =>
                  IF promptSupported
                  THEN pc = "askForMatchingProfile" \/ MatchPickerShown
                  ELSE /\ pc = "done"
                       /\ err = ErrAmbiguous(Names(matchingProfiles), authArguments.Host, ConfigPath)
                       /\ ~TokenRequested

C39_Witness ==
    /\ pc = "done"
    /\ EnvHostTaken
    /\ env.DATABRICKS_HOST = HShared
    /\ flags.Host = Empty
    /\ Len(matchingProfiles) = 2
    /\ MatchPickerShown
    /\ profileName = << "dup1" >>
    /\ trace[Len(trace)] = Event("Token", << "dup1" >>)
    /\ token # Empty

\* the positions of the trace that hold an event of the kind
At(ev) == { i \in 1..Len(trace) : trace[i].ev = ev }

NamePrompt == Event("Prompt", << "profile-name" >>)

\* a prompt setHostAndAccountId makes
IsHostPrompt(e) == e.ev = "Prompt" /\ e.arg \in { << "host" >>, << "account-id" >> }

\* the steps of the inline login as the trace shows them: the name prompt,
\* then only prompts of the host resolution, then the challenge for the
\* resolved arguments, then the save, then the reload of the saved profile
InlineLoginOrder ==
    /\ \A j \in At("Challenge") :
         /\ trace[j].arg = CacheKey(ToOAuthArgument(loginArgs))
         /\ loginArgs.Host # Empty
         /\ loginArgs.Profile = loginName
         /\ \E i \in 1..(j - 1) :
              /\ trace[i] = NamePrompt
              /\ \A m \in (i + 1)..(j - 1) : IsHostPrompt(trace[m])
    /\ \A k \in At("SaveToProfile") :
         /\ k > 1
         /\ trace[k - 1].ev = "Challenge"
         /\ trace[k].arg = loginName
         /\ lastSave.cfg.Profile = loginName
         /\ lastSave.cfg.Host = loginArgs.Host
         /\ IF lastSave.err = Empty
            THEN /\ k < Len(trace)
                 /\ trace[k + 1] = Event("LoadProfiles", << "WithName" >> \o loginName)
                 /\ existingProfile # Nil
            ELSE k = Len(trace) /\ pc = "done" /\ err = lastSave.err

LoginStarted == \E i \in 1..Len(trace) : trace[i] = NamePrompt

\* an inline login that ended before its save left the profile file alone
FailedLoginLeftFile ==
    (pc = "done" /\ LoginStarted /\ ~HasEvent("SaveToProfile")) =>
        /\ err # Empty
        /\ saves = 0
        /\ file \in Files \cup { NoFile }

\* the profile file is written by the save alone, and the save follows a
\* challenge that returned no error
SavedAfterChallenge ==
    (file' # file \/ disk' # disk \/ saves' # saves \/ At("SaveToProfile")' # At("SaveToProfile")) =>
        /\ pc = "saveProfile"
        /\ err = Empty
        /\ trace[Len(trace)].ev = "Challenge"
        /\ At("SaveToProfile") = {}
        /\ trace'[Len(trace) + 1] = Event("SaveToProfile", loginName)
        /\ saves' = saves + 1

\* C33: the inline login persists the new profile only after the OAuth
\* challenge has succeeded: name prompt, host resolution, challenge, save and
\* reload happen in this order, and a login that fails before the save (at
\* the name prompt, the host resolution, the building of the OAuth argument or
\* the challenge) never calls SaveToProfile and leaves the profile file as it
\* was.
C33_SaveAfterChallenge ==
    /\ [](InlineLoginOrder /\ FailedLoginLeftFile)
    /\ [][SavedAfterChallenge]_vars

C33_Witness ==
    /\ pc = "done"
    /\ loginName = << "new" >>
    /\ At("Challenge") # {}
    /\ At("SaveToProfile") # {}
    /\ saves = 1
    /\ lastSave.err = Empty
    /\ profileName = << "new" >>
    /\ file \notin Files
    /\ token # Empty

====
